---- MODULE Spec2Model ----
(***************************************************************************)
(* A model of the BLEDOMInstance device session of                         *)
(* custom_components/elkbledom/elkbledom.py: the retry wrapper, the        *)
(* connect / disconnect sequences under _connect_lock, the idle timer,     *)
(* the notification handler and the public operations.                     *)
(*                                                                         *)
(* asyncio runs one coroutine at a time and switches only at an await      *)
(* that suspends.  Every action below is therefore the code that runs      *)
(* from one suspension point to the next; the pure operators (Session ->   *)
(* Session) are composed to build those atomic blocks.                     *)
(***************************************************************************)
EXTENDS Integers, Sequences, FiniteSets, TLC

\* ---------------------------------------------------------------- bounds
MaxTimed == 1      \* _execute_timed_disconnect tasks alive at a time
MaxConns == 2      \* successful establish_connection calls per behaviour
MaxCalls == 2      \* calls of the public API per behaviour of Spec
MaxRetryCalls == 1 \* calls of the public API per behaviour of SpecRetry
MaxIdleTimed == 2  \* _execute_timed_disconnect tasks alive at a time in SpecIdle
MaxVariantCalls == 3 \* calls of turn_on / turn_off per behaviour of SpecVariant
MaxCandidates == 3     \* entries of QUERY_COMMANDS the prober goes through
MaxQueryCalls == 4     \* public calls of a behaviour of SpecQuery
MaxColorCalls == 2     \* set_color calls of a behaviour of SpecColor
MaxKelvinCalls == 1    \* set_color_temp_kelvin calls of a behaviour of SpecKelvin

\* The host's tasks that call the session: the entity layer, which runs one
\* command at a time ("cmd"), and the coordinator's poll and the teardown of
\* the config entry ("poll"), which run beside it.
Callers == {"cmd", "poll"}
TimedNames == <<"timed1", "timed2", "timed3">>
Timed   == {TimedNames[i] : i \in 1..MaxTimed}
AllTimed == {TimedNames[i] : i \in 1..Len(TimedNames)}
Procs   == Callers \cup AllTimed
Free    == "free"

\* ------------------------------------------------------ program constants
DEFAULT_ATTEMPTS == 3
max_attempts == DEFAULT_ATTEMPTS - 1

\* Exception classes, by the except clause of the wrapper that catches them.
RETRY_BACKOFF_EXCEPTIONS == {"BleakDBusError"}
BLEAK_EXCEPTIONS ==
    {"BleakError", "BleakDBusError", "BleakNotFoundError", "TimeoutError"}

\* What establish_connection and write_gatt_char can raise.
ConnectErrors == {"TimeoutError", "BleakNotFoundError", "BleakDBusError", "BleakError"}
WriteErrors   == {"BleakDBusError", "BleakError"}

MIN_KELVIN == 1800
MAX_KELVIN == 7000
WARM_RGB == <<255, 138, 18>>
COOL_RGB == <<180, 220, 255>>

\* The keys of MODEL_DB, in the order of the dictionary.
ModelKeys ==
    <<"ELK-BLEDDM", "ELK-BLE", "LEDBLE", "MELK-OG10",
      "MELK", "ELK-BULB2", "ELK-BULB", "ELK-LAMPL">>

\* The keys spelled out, character by character: device names are sequences
\* of characters, so that a prefix of a name is a prefix of a sequence.
KeyChars ==
    << <<"E", "L", "K", "-", "B", "L", "E", "D", "D", "M">>,
       <<"E", "L", "K", "-", "B", "L", "E">>,
       <<"L", "E", "D", "B", "L", "E">>,
       <<"M", "E", "L", "K", "-", "O", "G", "1", "0">>,
       <<"M", "E", "L", "K">>,
       <<"E", "L", "K", "-", "B", "U", "L", "B", "2">>,
       <<"E", "L", "K", "-", "B", "U", "L", "B">>,
       <<"E", "L", "K", "-", "L", "A", "M", "P", "L">> >>

\* The models a session is constructed for in the session specifications,
\* and the device names they are constructed with.
Models == {"ELK-BLEDDM", "MELK"}
SessionNames == {KeyChars[1], KeyChars[5]}

\* self._address: the address of the session's device, the address of a second
\* device that advertises the same name, and no address.
NoAddress == 0
Address == 1
OtherAddress == 2

\* A device without a name (self._device.name is None).
NoName == <<"None">>

\* The name the handle clause of _resolve_characteristics compares with.
ELK_BLEDOM == <<"E", "L", "K", "-", "B", "L", "E", "D", "O", "M">>

\* A device whose name makes _login_command run its handshake.
MODELX == <<"M", "O", "D", "E", "L", "X">>

\* str.lower(), on the characters device names and keys are made of.
UpperCase == <<"A", "B", "D", "E", "G", "K", "L", "M", "O", "P", "U", "X">>
LowerCase == <<"a", "b", "d", "e", "g", "k", "l", "m", "o", "p", "u", "x">>

LowerChar(c) ==
    IF \E i \in 1..Len(UpperCase) : UpperCase[i] = c
    THEN LowerCase[CHOOSE i \in 1..Len(UpperCase) : UpperCase[i] = c]
    ELSE c

Lower(s) == [i \in 1..Len(s) |-> LowerChar(s[i])]

\* str.startswith
StartsWith(s, prefix) ==
    /\ Len(prefix) <= Len(s)
    /\ \A i \in 1..Len(prefix) : s[i] = prefix[i]

\* device_name_lower.startswith("modelx")
IsModelX(name) ==
    name # NoName /\ StartsWith(Lower(name), Lower(MODELX))

\* The positions in MODEL_DB of the keys the name starts with.
MatchingKeys(name) ==
    {i \in 1..Len(KeyChars) : StartsWith(Lower(name), Lower(KeyChars[i]))}

\* Mutant of DetectModel: the shortest key the name starts with.
DetectModelShortest(name) ==
    IF name = NoName \/ MatchingKeys(name) = {} THEN ModelKeys[1]
    ELSE ModelKeys[CHOOSE i \in MatchingKeys(name) :
                       \A j \in MatchingKeys(name) :
                           Len(KeyChars[i]) <= Len(KeyChars[j])]

\* Mutant of DetectModel: the last matching key of the dictionary.
DetectModelLast(name) ==
    IF name = NoName \/ MatchingKeys(name) = {} THEN ModelKeys[1]
    ELSE ModelKeys[CHOOSE i \in MatchingKeys(name) :
                       \A j \in MatchingKeys(name) : j <= i]

\* _detect_model: the value self._model gets. A missing name and a name no
\* key matches give the first entry of MODEL_DB; otherwise the loop over
\* MODEL_DB.items() stops at the first key the name starts with.
DetectModel(name) ==
    IF name = NoName \/ MatchingKeys(name) = {} THEN ModelKeys[1]
    ELSE ModelKeys[CHOOSE i \in MatchingKeys(name) :
                       \A j \in MatchingKeys(name) : i <= j]

\* MODEL_DB: for each key the command templates (0xbb = 187 marks a parameter
\* byte), the default RGB gains in hundredths, and the alternate turn-on and
\* turn-off templates (<<>> where the entry has none).
MODEL_DB ==
    "ELK-BLEDDM" :>
        [turn_on_cmd       |-> <<126, 4, 4, 240, 0, 1, 255, 0, 239>>,
         turn_off_cmd      |-> <<126, 4, 4, 0, 0, 0, 255, 0, 239>>,
         white_cmd         |-> <<126, 0, 1, 187, 0, 0, 0, 0, 239>>,
         effect_speed_cmd  |-> <<126, 0, 2, 187, 0, 0, 0, 0, 239>>,
         effect_cmd        |-> <<126, 0, 3, 187, 3, 0, 0, 0, 239>>,
         color_temp_cmd    |-> <<126, 0, 5, 2, 187, 187, 0, 0, 239>>,
         default_rgb_gains |-> <<100, 88, 38>>,
         alt_turn_on_cmd   |-> <<126, 0, 4, 240, 0, 1, 255, 0, 239>>,
         alt_turn_off_cmd  |-> <<126, 0, 4, 0, 0, 0, 255, 0, 239>>]
    @@
    "ELK-BLE" :>
        [turn_on_cmd       |-> <<126, 0, 4, 240, 0, 1, 255, 0, 239>>,
         turn_off_cmd      |-> <<126, 0, 4, 0, 0, 0, 255, 0, 239>>,
         white_cmd         |-> <<126, 0, 1, 187, 0, 0, 0, 0, 239>>,
         effect_speed_cmd  |-> <<126, 0, 2, 187, 0, 0, 0, 0, 239>>,
         effect_cmd        |-> <<126, 0, 3, 187, 3, 0, 0, 0, 239>>,
         color_temp_cmd    |-> <<126, 0, 5, 2, 187, 187, 0, 0, 239>>,
         default_rgb_gains |-> <<100, 100, 100>>,
         alt_turn_on_cmd   |-> <<>>,
         alt_turn_off_cmd  |-> <<>>]
    @@
    "LEDBLE" :>
        [turn_on_cmd       |-> <<126, 0, 4, 1, 0, 0, 0, 0, 239>>,
         turn_off_cmd      |-> <<126, 0, 4, 0, 0, 0, 255, 0, 239>>,
         white_cmd         |-> <<126, 0, 1, 187, 0, 0, 0, 0, 239>>,
         effect_speed_cmd  |-> <<126, 0, 2, 187, 0, 0, 0, 0, 239>>,
         effect_cmd        |-> <<126, 0, 3, 187, 3, 0, 0, 0, 239>>,
         color_temp_cmd    |-> <<126, 0, 5, 2, 187, 187, 0, 0, 239>>,
         default_rgb_gains |-> <<100, 100, 100>>,
         alt_turn_on_cmd   |-> <<>>,
         alt_turn_off_cmd  |-> <<>>]
    @@
    "MELK-OG10" :>
        [turn_on_cmd       |-> <<126, 7, 4, 255, 0, 1, 2, 1, 239>>,
         turn_off_cmd      |-> <<126, 7, 4, 0, 0, 0, 2, 0, 239>>,
         white_cmd         |-> <<126, 7, 5, 1, 187, 255, 2, 1>>,
         effect_speed_cmd  |-> <<126, 4, 2, 187, 255, 255, 255, 0, 239>>,
         effect_cmd        |-> <<126, 5, 3, 187, 6, 255, 255, 0, 239>>,
         color_temp_cmd    |-> <<126, 6, 5, 2, 187, 187, 255, 8, 239>>,
         default_rgb_gains |-> <<100, 100, 100>>,
         alt_turn_on_cmd   |-> <<>>,
         alt_turn_off_cmd  |-> <<>>]
    @@
    "MELK" :>
        [turn_on_cmd       |-> <<126, 0, 4, 1, 0, 0, 0, 0, 239>>,
         turn_off_cmd      |-> <<126, 0, 4, 0, 0, 0, 255, 0, 239>>,
         white_cmd         |-> <<126, 0, 1, 187, 0, 0, 0, 0, 239>>,
         effect_speed_cmd  |-> <<126, 4, 2, 187, 255, 255, 255, 0, 239>>,
         effect_cmd        |-> <<126, 5, 3, 187, 6, 255, 255, 0, 239>>,
         color_temp_cmd    |-> <<126, 6, 5, 2, 187, 187, 255, 8, 239>>,
         default_rgb_gains |-> <<100, 100, 100>>,
         alt_turn_on_cmd   |-> <<>>,
         alt_turn_off_cmd  |-> <<>>]
    @@
    "ELK-BULB2" :>
        [turn_on_cmd       |-> <<126, 0, 4, 240, 0, 1, 255, 0, 239>>,
         turn_off_cmd      |-> <<126, 0, 4, 1, 0, 0, 0, 0, 239>>,
         white_cmd         |-> <<126, 0, 1, 187, 0, 0, 0, 0, 239>>,
         effect_speed_cmd  |-> <<126, 0, 2, 187, 0, 0, 0, 0, 239>>,
         effect_cmd        |-> <<126, 0, 3, 187, 3, 0, 0, 0, 239>>,
         color_temp_cmd    |-> <<126, 0, 5, 2, 187, 187, 0, 0, 239>>,
         default_rgb_gains |-> <<100, 100, 100>>,
         alt_turn_on_cmd   |-> <<>>,
         alt_turn_off_cmd  |-> <<>>]
    @@
    "ELK-BULB" :>
        [turn_on_cmd       |-> <<126, 0, 4, 1, 0, 0, 0, 0, 239>>,
         turn_off_cmd      |-> <<126, 0, 4, 0, 0, 0, 255, 0, 239>>,
         white_cmd         |-> <<126, 0, 1, 187, 0, 0, 0, 0, 239>>,
         effect_speed_cmd  |-> <<126, 0, 2, 187, 0, 0, 0, 0, 239>>,
         effect_cmd        |-> <<126, 0, 3, 187, 3, 0, 0, 0, 239>>,
         color_temp_cmd    |-> <<126, 0, 5, 2, 187, 187, 0, 0, 239>>,
         default_rgb_gains |-> <<100, 100, 100>>,
         alt_turn_on_cmd   |-> <<>>,
         alt_turn_off_cmd  |-> <<>>]
    @@
    "ELK-LAMPL" :>
        [turn_on_cmd       |-> <<126, 0, 4, 1, 0, 0, 0, 0, 239>>,
         turn_off_cmd      |-> <<126, 0, 4, 0, 0, 0, 255, 0, 239>>,
         white_cmd         |-> <<126, 0, 1, 187, 0, 0, 0, 0, 239>>,
         effect_speed_cmd  |-> <<126, 0, 2, 187, 0, 0, 0, 0, 239>>,
         effect_cmd        |-> <<126, 0, 3, 187, 3, 0, 0, 0, 239>>,
         color_temp_cmd    |-> <<126, 0, 5, 2, 187, 187, 0, 0, 239>>,
         default_rgb_gains |-> <<100, 100, 100>>,
         alt_turn_on_cmd   |-> <<>>,
         alt_turn_off_cmd  |-> <<>>]

\* Mutant of NoNotifyName: only the ledble names are left out.
NoNotifyNameLedbleOnly(model) == model \in {"LEDBLE"}

\* _device.name.lower().startswith("melk") or ("ledble"): _detect_model takes
\* the first key that is a prefix of the name, so such a name resolves to a
\* MELK* / LEDBLE model.
NoNotifyName(model) == model \in {"MELK", "MELK-OG10", "LEDBLE"}

\* ----------------------------------------------------------------- inputs
Delays == {0, 1}                       \* the configured idle delay (0: none)
RGBArgs == {<<255, 0, 0>>}             \* set_color(rgb)
IntensityArgs == {128}                 \* set_white / set_brightness
KelvinArgs == {<<3000, 128>>}          \* set_color_temp_kelvin(value, brightness)

Mutators ==
    {"turn_on", "turn_off", "set_color", "set_white", "set_brightness",
     "set_color_temp_kelvin"}
WrappedOps == Mutators \cup {"update"}

\* The retry-wrapped operations each host task calls in the session
\* specification (Spec); SpecRetry calls every wrapped operation.
SessionOps(t) ==
    IF t = "cmd" THEN {"turn_on", "turn_off", "set_color"} ELSE {"update"}

ArgsOf(op) ==
    CASE op = "set_color" -> RGBArgs
      [] op \in {"set_white", "set_brightness"} -> IntensityArgs
      [] op = "set_color_temp_kelvin" -> KelvinArgs
      [] OTHER -> {<<>>}

\* QUERY_COMMANDS, cut to its first MaxCandidates entries (the descriptions
\* are left out); the entries of the catalog are pairwise different.
QUERY_COMMANDS ==
    SubSeq(<< <<126, 0, 1, 250, 0, 0, 0, 0, 239>>,    \* Standard status query
              <<126, 0, 16, 0, 0, 0, 0, 0, 239>>,     \* Alternative query v1
              <<126, 0, 129, 0, 0, 0, 0, 0, 239>>,    \* Status query 0x81
              <<126, 0, 130, 0, 0, 0, 0, 0, 239>>,    \* Status query 0x82
              <<126, 0, 131, 0, 0, 0, 0, 0, 239>>,    \* Status query 0x83
              <<239, 1, 119>>,                        \* Short query v1
              <<126, 0, 16>>,                         \* Short query v2
              <<126, 16>> >>,                         \* Minimal query
           1, MaxCandidates)

\* What the cache file may hold for a device key: nothing (<<>>), or the
\* command an earlier session saved.
CachedCmds == {<<>>} \cup {QUERY_COMMANDS[i] : i \in 1..Len(QUERY_COMMANDS)}

\* Notification frames the device may send.
NotifFrames ==
    { <<126, 0, 1, 35, 255, 0, 0, 50, 239>>,        \* status: on, red, 50 %
      <<126, 0, 1, 36, 255, 255, 255, 255, 239>>,   \* status: off, no data
      <<126, 0, 2, 0, 0, 0, 0, 0, 239>>,            \* valid frame, not status
      <<126, 16>> }                                 \* fails the framing check

\* Python's None for the two optional observed values, written as values of
\* the same kind as the real ones: the empty tuple, and a Kelvin no call gives.
NoRGB == <<>>
NoKelvin == -1

VARIABLES
    device_name,            \* self._device.name: characters, or NoName (None)
    model,                  \* self._model
    config,                 \* the key of the MODEL_DB entry the session's
                            \* command templates were last copied from
    rgb_gains,              \* self._rgb_gain_r, _g, _b, in hundredths
    call_args,              \* a command builder called on its own: the builder,
                            \* the session's template and the value
    result,                 \* the frame it returned (<<>> before the call)
    delay,                  \* self._delay
    client,                 \* self._client: 0 is None, else a client object
    linkUp,                 \* the clients whose is_connected is true
    subscribed,             \* the clients with start_notify in force
    nclients,               \* clients establish_connection has returned
    lock,                   \* holder of self._connect_lock, or Free
    waiters,                \* FIFO of the tasks waiting for the lock
    disconnect_timer,       \* self._disconnect_timer: None, pending, cancelled
    live_timers,            \* the loop's call_later handles neither cancelled
                            \* nor fired
    disconnect_calls,       \* history: per client, the calls of disconnect()
    expected_disconnect,    \* self._expected_disconnect
    read_uuid, write_uuid,  \* resolved (TRUE) or None (FALSE)
    is_on,                  \* "None", "True", "False"
    rgb_color,              \* NoRGB (None) or a triple
    color_temp_kelvin,      \* NoKelvin (None) or Kelvin
    brightness,
    notification_received,
    bleddm_variant_checked,
    alt_cmds,               \* turn-on/off templates swapped to the alternate
    variant_checks,         \* history: ELK-BLEDDM variant checks begun
    working_query_cmd,      \* self._working_query_cmd: <<>> (None) or bytes
    query_detection_done,   \* self._query_detection_done
    cache,                  \* query_commands.json: device key -> command
    cache_at_start,         \* history: the cache file when the session began
    cache_owner,            \* history: per device key, the address that saved it
    responds_to,            \* the device: the catalog index it answers (0: none)
    response_pending,       \* the device: an answer sent and not yet delivered
    probed,                 \* history: query_state reached its detection loop
    query_writes,           \* history: the frames query_state has written
    ncalls,                 \* public calls made so far (bounded by MaxCalls)
    updated,                \* history: an update() got past its connection step
    track,                  \* whether the frames record their history
    task                    \* per task: pc, wrapper frames, result, locals

vars == <<device_name, model, config, rgb_gains, call_args, result, delay, client, linkUp, subscribed, nclients, lock, waiters,
          disconnect_timer, live_timers, disconnect_calls,
          expected_disconnect, read_uuid, write_uuid,
          is_on, rgb_color, color_temp_kelvin, brightness,
          notification_received, bleddm_variant_checked, alt_cmds,
          variant_checks, working_query_cmd, query_detection_done, cache,
          cache_at_start, cache_owner, responds_to, response_pending, probed,
          query_writes, ncalls,
          updated, track, task>>

\* The whole state as one record, for the Session -> Session operators.
State ==
    [device_name |-> device_name, model |-> model, config |-> config,
     rgb_gains |-> rgb_gains, call_args |-> call_args, result |-> result,
     delay |-> delay, client |-> client, linkUp |-> linkUp,
     subscribed |-> subscribed, nclients |-> nclients, lock |-> lock,
     waiters |-> waiters, disconnect_timer |-> disconnect_timer,
     live_timers |-> live_timers, disconnect_calls |-> disconnect_calls,
     expected_disconnect |-> expected_disconnect,
     read_uuid |-> read_uuid, write_uuid |-> write_uuid, is_on |-> is_on,
     rgb_color |-> rgb_color, color_temp_kelvin |-> color_temp_kelvin,
     brightness |-> brightness,
     notification_received |-> notification_received,
     bleddm_variant_checked |-> bleddm_variant_checked,
     alt_cmds |-> alt_cmds, variant_checks |-> variant_checks,
     working_query_cmd |-> working_query_cmd,
     query_detection_done |-> query_detection_done, cache |-> cache,
     cache_at_start |-> cache_at_start, cache_owner |-> cache_owner,
     responds_to |-> responds_to,
     response_pending |-> response_pending, probed |-> probed,
     query_writes |-> query_writes,
     ncalls |-> ncalls, updated |-> updated,
     track |-> track, task |-> task]

\* The step ends in session S; S is evaluated once, as T.
Commit(S) ==
    \E T \in {S} :
        /\ device_name' = T.device_name
        /\ model' = T.model
        /\ config' = T.config
        /\ rgb_gains' = T.rgb_gains
        /\ call_args' = T.call_args
        /\ result' = T.result
        /\ delay' = T.delay
        /\ client' = T.client
        /\ linkUp' = T.linkUp
        /\ subscribed' = T.subscribed
        /\ nclients' = T.nclients
        /\ lock' = T.lock
        /\ waiters' = T.waiters
        /\ disconnect_timer' = T.disconnect_timer
        /\ live_timers' = T.live_timers
        /\ disconnect_calls' = T.disconnect_calls
        /\ expected_disconnect' = T.expected_disconnect
        /\ read_uuid' = T.read_uuid
        /\ write_uuid' = T.write_uuid
        /\ is_on' = T.is_on
        /\ rgb_color' = T.rgb_color
        /\ color_temp_kelvin' = T.color_temp_kelvin
        /\ brightness' = T.brightness
        /\ notification_received' = T.notification_received
        /\ bleddm_variant_checked' = T.bleddm_variant_checked
        /\ alt_cmds' = T.alt_cmds
        /\ variant_checks' = T.variant_checks
        /\ working_query_cmd' = T.working_query_cmd
        /\ query_detection_done' = T.query_detection_done
        /\ cache' = T.cache
        /\ cache_at_start' = T.cache_at_start
        /\ cache_owner' = T.cache_owner
        /\ responds_to' = T.responds_to
        /\ response_pending' = T.response_pending
        /\ probed' = T.probed
        /\ query_writes' = T.query_writes
        /\ ncalls' = T.ncalls
        /\ updated' = T.updated
        /\ track' = T.track
        /\ task' = T.task

\* ------------------------------------------------------------ task records
\* A frame is one activation of _async_wrap_retry_bluetooth_connection_error:
\* the wrapped function, its argument, the bytes it has passed to _write
\* (data), the loop variable `attempt`, and the activation's history: the
\* backoff sleeps it has made and the exceptions its function has raised into
\* it, in order.
NewFrame(op, arg) ==
    [op |-> op, arg |-> arg, phase |-> "plain", data |-> <<>>, attempt |-> 0,
     sleeps |-> 0, raised |-> <<>>]

\* A task: where it is suspended (pc), the public operation it runs (op),
\* the wrapper frames on its call stack, the exception its call ended with
\* (exc), the write_gatt_char calls of the call so far (writes), and the
\* local variable `client` of _ensure_connected / _execute_disconnect, or the
\* client a write in flight was issued on (conn), and the position of
\* query_state's for loop in QUERY_COMMANDS (cand).
IdleTask ==
    [pc |-> "idle", op |-> "none", stack |-> <<>>, exc |-> "none",
     writes |-> 0, conn |-> 0, cand |-> 0]

Top(S, t) == S.task[t].stack[Len(S.task[t].stack)]

SetPc(S, t, pc) == [S EXCEPT !.task[t].pc = pc]

SetTop(S, t, f) == [S EXCEPT !.task[t].stack[Len(S.task[t].stack)] = f]

Pop(S, t) ==
    [S EXCEPT !.task[t].stack = SubSeq(@, 1, Len(@) - 1)]

Push(S, t, f) == [S EXCEPT !.task[t].stack = Append(@, f)]

Connected(S) == S.client # 0 /\ S.client \in S.linkUp

Release(S) == [S EXCEPT !.lock = Free]

\* ---------------------------------------------------------- the idle timer
\* Mutant of ResetDisconnectTimer: the handle held is not cancelled.
ResetDisconnectTimerNoCancel(S) ==
    [S EXCEPT !.expected_disconnect = FALSE,
              !.disconnect_timer =
                  IF S.delay # 0 THEN "pending"
                  ELSE IF @ = "pending" THEN "cancelled" ELSE @,
              !.live_timers = IF S.delay # 0 THEN @ + 1 ELSE @]

\* The handle the session holds is cancelled (a no-op on one that has fired or
\* was cancelled before), then, with a delay configured, a new one scheduled.
ResetDisconnectTimer(S) ==
    LET kept == IF S.disconnect_timer = "pending" THEN S.live_timers - 1
                ELSE S.live_timers
    IN  [S EXCEPT !.expected_disconnect = FALSE,
                  !.disconnect_timer =
                      IF S.delay # 0 THEN "pending"
                      ELSE IF @ = "pending" THEN "cancelled" ELSE @,
                  !.live_timers = IF S.delay # 0 THEN kept + 1 ELSE kept]

\* ------------------------------------------------------- the retry wrapper
\* Mutants of WrapOutcome: the backoff class retried at once; every BLE error
\* backed off; the BleakNotFoundError clause missing; every exception retried.
WrapOutcomeNoBackoff(attempt, e) ==
    IF e = "BleakNotFoundError" THEN "raise"
    ELSE IF e \in BLEAK_EXCEPTIONS
         THEN IF attempt >= max_attempts THEN "raise" ELSE "retry"
    ELSE "raise"

WrapOutcomeAllBackoff(attempt, e) ==
    IF e = "BleakNotFoundError" THEN "raise"
    ELSE IF e \in BLEAK_EXCEPTIONS
         THEN IF attempt >= max_attempts THEN "raise" ELSE "sleep"
    ELSE "raise"

WrapOutcomeRetryNotFound(attempt, e) ==
    IF e \in RETRY_BACKOFF_EXCEPTIONS
    THEN IF attempt >= max_attempts THEN "raise" ELSE "sleep"
    ELSE IF e \in BLEAK_EXCEPTIONS
         THEN IF attempt >= max_attempts THEN "raise" ELSE "retry"
    ELSE "raise"

WrapOutcomeRetryAll(attempt, e) ==
    IF e = "BleakNotFoundError" THEN "raise"
    ELSE IF e \in RETRY_BACKOFF_EXCEPTIONS
         THEN IF attempt >= max_attempts THEN "raise" ELSE "sleep"
    ELSE IF attempt >= max_attempts THEN "raise" ELSE "retry"

\* What the wrapper does with exception e raised by attempt number `attempt`:
\* "raise" (propagate to the caller), "sleep" (back off, then next attempt),
\* "retry" (next attempt at once).
WrapOutcome(attempt, e) ==
    IF e = "BleakNotFoundError" THEN "raise"
    ELSE IF e \in RETRY_BACKOFF_EXCEPTIONS
         THEN IF attempt >= max_attempts THEN "raise" ELSE "sleep"
    ELSE IF e \in BLEAK_EXCEPTIONS
         THEN IF attempt >= max_attempts THEN "raise" ELSE "retry"
    ELSE "raise"

\* ------------------------------------------------------- colour emulation
Lerp(a, b, value) ==
    IF b >= a THEN a + ((b - a) * (value - MIN_KELVIN)) \div (MAX_KELVIN - MIN_KELVIN)
    ELSE a - ((a - b) * (value - MIN_KELVIN) + (MAX_KELVIN - MIN_KELVIN - 1))
                 \div (MAX_KELVIN - MIN_KELVIN)

ClampKelvin(value) ==
    IF value < MIN_KELVIN THEN MIN_KELVIN
    ELSE IF value > MAX_KELVIN THEN MAX_KELVIN ELSE value

\* Mutant of EmulatedRGB: the interpolated colour at full brightness.
EmulatedRGBUnscaled(value, bright) ==
    LET v == ClampKelvin(value)
    IN  <<Lerp(WARM_RGB[1], COOL_RGB[1], v), Lerp(WARM_RGB[2], COOL_RGB[2], v),
          Lerp(WARM_RGB[3], COOL_RGB[3], v)>>

EmulatedRGB(value, bright) ==
    LET v == ClampKelvin(value)
        ch(i) == (Lerp(WARM_RGB[i], COOL_RGB[i], v) * bright) \div 255
    IN  <<ch(1), ch(2), ch(3)>>

\* ------------------------------------------------------ the command bytes
\* self._turn_on_cmd / self._turn_off_cmd: the model's template, or the
\* alternate one once the variant check has swapped it in.
TurnOnCmd(S) ==
    IF S.alt_cmds THEN MODEL_DB[S.model].alt_turn_on_cmd
    ELSE MODEL_DB[S.config].turn_on_cmd

TurnOffCmd(S) ==
    IF S.alt_cmds THEN MODEL_DB[S.model].alt_turn_off_cmd
    ELSE MODEL_DB[S.config].turn_off_cmd

\* int(x * 100 / 255)
Percent(x) == (x * 100) \div 255

\* The indices of the 0xbb bytes of a template, in order.
BBIndices(cmd) == {i \in 1..Len(cmd) : cmd[i] = 187}

NthBB(cmd, n) ==
    CHOOSE i \in BBIndices(cmd) :
        Cardinality({j \in BBIndices(cmd) : j < i}) = n - 1

\* A template field that is None.
NoTemplate == <<"None">>

\* No builder called on its own.
NoCall == [fn |-> "none", template |-> <<>>, value |-> <<>>]

\* Mutant of Substitute: the fallback frame for a template without 0xbb.
SubstituteOrFallback(cmd, value, fallback) ==
    IF cmd = NoTemplate \/ BBIndices(cmd) = {} THEN fallback
    ELSE [cmd EXCEPT ![NthBB(cmd, 1)] = value]

\* The body the three single-value builders share: the fallback frame for a
\* template that is None; else a copy of the template, with its first 0xbb
\* (if it has one) replaced by the value.
Substitute(cmd, value, fallback) ==
    IF cmd = NoTemplate THEN fallback
    ELSE IF BBIndices(cmd) = {} THEN cmd
    ELSE [cmd EXCEPT ![NthBB(cmd, 1)] = value]

\* The fallback frames of get_white_cmd, get_effect_speed_cmd, get_effect_cmd.
FallbackFrame(fn, payload) ==
    CASE fn = "get_white_cmd" -> <<126, 0, 1, payload, 0, 0, 0, 0, 239>>
      [] fn = "get_effect_speed_cmd" -> <<126, 0, 2, payload, 0, 0, 0, 0, 239>>
      [] fn = "get_effect_cmd" -> <<126, 0, 3, payload, 3, 0, 0, 0, 239>>

\* The value a builder writes into the frame: the intensity in percent for
\* get_white_cmd, int(value) for the other two.
PayloadValue(fn, value) ==
    IF fn = "get_white_cmd" THEN Percent(value) ELSE value

\* get_white_cmd / get_effect_speed_cmd / get_effect_cmd on template cmd.
BuildCmd(fn, cmd, value) ==
    Substitute(cmd, PayloadValue(fn, value),
               FallbackFrame(fn, PayloadValue(fn, value)))

\* get_white_cmd: the first 0xbb replaced by the intensity in percent.
GetWhiteCmd(S, intensity) ==
    BuildCmd("get_white_cmd", MODEL_DB[S.config].white_cmd, intensity)

\* get_color_temp_cmd: the first two 0xbb replaced by its two arguments.
GetColorTempCmd(S, warm, cold) ==
    LET cmd == MODEL_DB[S.config].color_temp_cmd
    IN  IF Cardinality(BBIndices(cmd)) < 2 THEN cmd
        ELSE [cmd EXCEPT ![NthBB(cmd, 1)] = warm, ![NthBB(cmd, 2)] = cold]

\* set_rgb_gains: max(0.0, float(x)) for each gain.
SetRGBGains(S, g) ==
    [S EXCEPT !.rgb_gains = [i \in 1..3 |-> IF g[i] < 0 THEN 0 ELSE g[i]]]

\* Mutant of ClampByte: the product cut to an integer, not rounded.
ClampByteTrunc(v, gain) ==
    LET q == (v * gain) \div 100
    IN  IF q < 0 THEN 0 ELSE IF q > 255 THEN 255 ELSE q

\* _clamp_byte(v * gain), the gain in hundredths: max(0, min(255,
\* int(round(x)))), where Python's round takes a tie to the even integer.
\* For the gains of the model (0, 0.38, 0.5, 0.88, 1, 1.5, 2) and every
\* integer v in -20..300 the double v * gain rounds as the exact product.
ClampByte(v, gain) ==
    LET n == v * gain
        q == n \div 100
        r == n % 100
        rounded == IF r > 50 \/ (r = 50 /\ q % 2 = 1) THEN q + 1 ELSE q
    IN  IF rounded < 0 THEN 0 ELSE IF rounded > 255 THEN 255 ELSE rounded

ApplyRGBGains(S, rgb) ==
    LET g == S.rgb_gains
    IN  <<ClampByte(rgb[1], g[1]), ClampByte(rgb[2], g[2]), ClampByte(rgb[3], g[3])>>

\* The bytes the function of frame f passes to _write, evaluated when it
\* makes the call.
Payload(S, f) ==
    CASE f.op = "turn_on" -> TurnOnCmd(S)
      [] f.op = "turn_off" -> TurnOffCmd(S)
      [] f.op = "set_color" ->
           LET c == ApplyRGBGains(S, f.arg)
           IN  <<126, 0, 5, 3, c[1], c[2], c[3], 0, 239>>
      [] f.op = "set_white" -> GetWhiteCmd(S, f.arg)
      [] f.op = "set_brightness" ->
           <<126, 4, 1, Percent(f.arg), 255, 0, 255, 0, 239>>
      [] f.op = "set_color_temp_kelvin" ->
           GetColorTempCmd(S,
               ((ClampKelvin(f.arg[1]) - MIN_KELVIN) * 100)
                   \div (MAX_KELVIN - MIN_KELVIN),
               Percent(f.arg[2]))
      [] OTHER -> <<>>

\* ------------------------------------------------- the notification handler
\* Mutant of NotificationHandler: the framing check left out.
NotificationHandlerNoFraming(S, data) ==
    LET S1 == [S EXCEPT !.notification_received = TRUE]
        status == Len(data) >= 9 /\ data[3] = 1
        power == data[4]
        S2 == IF power \in {35, 240, 1} THEN [S1 EXCEPT !.is_on = "True"]
              ELSE IF power \in {36, 0} THEN [S1 EXCEPT !.is_on = "False"]
              ELSE S1
        S3 == IF data[5] # 255 \/ data[6] # 255 \/ data[7] # 255
              THEN [S2 EXCEPT !.rgb_color = <<data[5], data[6], data[7]>>]
              ELSE S2
        S4 == IF data[8] # 255
              THEN [S3 EXCEPT !.brightness = (data[8] * 255) \div 100]
              ELSE S3
    IN  IF status THEN S4 ELSE S1

\* Mutant of NotificationHandler: the colour kept when any of its three
\* bytes is 0xff.
NotificationHandlerAnyFF(S, data) ==
    LET S1 == [S EXCEPT !.notification_received = TRUE]
        status == Len(data) >= 9 /\ data[1] = 126 /\ data[9] = 239 /\ data[3] = 1
        power == data[4]
        S2 == IF power \in {35, 240, 1} THEN [S1 EXCEPT !.is_on = "True"]
              ELSE IF power \in {36, 0} THEN [S1 EXCEPT !.is_on = "False"]
              ELSE S1
        S3 == IF data[5] # 255 /\ data[6] # 255 /\ data[7] # 255
              THEN [S2 EXCEPT !.rgb_color = <<data[5], data[6], data[7]>>]
              ELSE S2
        S4 == IF data[8] # 255
              THEN [S3 EXCEPT !.brightness = (data[8] * 255) \div 100]
              ELSE S3
    IN  IF status THEN S4 ELSE S1

NotificationHandler(S, data) ==
    LET S1 == [S EXCEPT !.notification_received = TRUE]
        status == Len(data) >= 9 /\ data[1] = 126 /\ data[9] = 239 /\ data[3] = 1
        power == data[4]
        S2 == IF power \in {35, 240, 1} THEN [S1 EXCEPT !.is_on = "True"]
              ELSE IF power \in {36, 0} THEN [S1 EXCEPT !.is_on = "False"]
              ELSE S1
        S3 == IF data[5] # 255 \/ data[6] # 255 \/ data[7] # 255
              THEN [S2 EXCEPT !.rgb_color = <<data[5], data[6], data[7]>>]
              ELSE S2
        S4 == IF data[8] # 255
              THEN [S3 EXCEPT !.brightness = (data[8] * 255) \div 100]
              ELSE S3
    IN  IF status THEN S4 ELSE S1

\* Mutant of ResolveCharacteristics: the templates left alone.
ResolveCharacteristicsKeepsConfig(S, hasRead, hasWrite) ==
    [S EXCEPT !.read_uuid = @ \/ hasRead, !.write_uuid = @ \/ hasWrite]

\* _resolve_characteristics: a UUID found on the services is stored; one not
\* found leaves the stored value as it was. With a write characteristic
\* found, the condition of line 1080 parses as
\*   (self.name == "ELK-BLEDOM" and char.handle) if hasattr(char, 'handle')
\*                                               else ('Unknown' == 0x000d)
\* and a characteristic has a handle, which is not 0: for the name ELK-BLEDOM
\* the six templates are overwritten with those of MODEL_DB["ELK-BLEDDM"].
ResolveCharacteristics(S, hasRead, hasWrite) ==
    LET S1 == [S EXCEPT !.read_uuid = @ \/ hasRead, !.write_uuid = @ \/ hasWrite]
    IN  IF hasWrite /\ S.device_name = ELK_BLEDOM
        THEN [S1 EXCEPT !.config = "ELK-BLEDDM", !.alt_cmds = FALSE]
        ELSE S1

Resolved(S) == S.read_uuid /\ S.write_uuid

\* ------------------------------------------ the call stack of one coroutine
RECURSIVE FrameReturn(_, _), Raise(_, _, _), RunAttempt(_, _),
          EnsureConnected(_, _), AfterEnsure(_, _)

\* The wrapped function of the top frame returns normally: so does the
\* wrapper, and (set_color called from set_color_temp_kelvin) its caller.
FrameReturn(S, t) ==
    IF Len(S.task[t].stack) = 1
    THEN [S EXCEPT !.task[t].pc = "done", !.task[t].exc = "none",
                   !.task[t].conn = 0]
    ELSE FrameReturn(Pop(S, t), t)

\* Mutant of InitObserved: the defaults written on every update().
InitObservedAlways(S) ==
    [S EXCEPT !.is_on = "False", !.rgb_color = <<0, 0, 0>>,
              !.color_temp_kelvin = 5000, !.brightness = 255,
              !.updated = TRUE]

\* The update() body's optimistic initialisation.
InitObserved(S) ==
    IF S.is_on = "None"
    THEN [S EXCEPT !.is_on = "False", !.rgb_color = <<0, 0, 0>>,
                   !.color_temp_kelvin = 5000, !.brightness = 255,
                   !.updated = TRUE]
    ELSE [S EXCEPT !.updated = TRUE]

\* update()'s `except Exception`.
UpdateFailed(S) == [S EXCEPT !.is_on = "False", !.updated = TRUE]

\* The wrapper's exception handlers, for exception e out of the top frame's
\* function.
WrapperHandle(S, t, e) ==
    LET f0 == Top(S, t)
        f == IF S.track THEN [f0 EXCEPT !.raised = Append(@, e)] ELSE f0
        S1 == SetTop(S, t, f)
        how == WrapOutcome(f.attempt, e)
    IN  IF how = "sleep"
        THEN SetPc(SetTop(S, t, [f EXCEPT !.sleeps = IF S.track THEN @ + 1 ELSE @]),
                   t, "sleep")
        ELSE IF how = "retry"
        THEN RunAttempt(SetTop(S, t, [f EXCEPT !.attempt = @ + 1]), t)
        ELSE IF Len(S.task[t].stack) = 1
        THEN [S1 EXCEPT !.task[t].pc = "done", !.task[t].exc = e,
                        !.task[t].conn = 0]
        ELSE Raise(Pop(S, t), t, e)

\* Exception e propagates out of the code the top frame's function is at.
Raise(S, t, e) ==
    LET f == Top(S, t)
    IN  IF f.op = "update" THEN FrameReturn(UpdateFailed(S), t)
        ELSE IF f.op = "set_color_temp_kelvin" /\ f.phase = "native"
        THEN RunAttempt(
                 Push(SetTop(S, t, [f EXCEPT !.phase = "emulate"]), t,
                      NewFrame("set_color", EmulatedRGB(f.arg[1], f.arg[2]))),
                 t)
        ELSE WrapperHandle(S, t, e)

\* _write_while_connected up to the await of write_gatt_char.
WriteWhileConnected(S, t) ==
    IF S.client = 0 THEN Raise(S, t, "RuntimeError")
    ELSE [S EXCEPT !.task[t].pc = "write", !.task[t].conn = S.client,
                   !.task[t].writes = IF S.track THEN @ + 1 ELSE @]

\* _ensure_connected has returned normally to the top frame's function.
AfterEnsure(S, t) ==
    IF Top(S, t).op = "update" THEN FrameReturn(InitObserved(S), t)
    ELSE WriteWhileConnected(S, t)

\* Mutant of EnsureConnected: the connect section entered without the lock.
EnsureConnectedNoLock(S, t) ==
    IF Connected(S) THEN AfterEnsure(ResetDisconnectTimer(S), t)
    ELSE [S EXCEPT !.lock = t, !.task[t].pc = "establish"]

\* _ensure_connected from its first line to its first suspension.
EnsureConnected(S, t) ==
    IF Connected(S) THEN AfterEnsure(ResetDisconnectTimer(S), t)
    ELSE IF S.lock = Free /\ S.waiters = <<>>
    THEN [S EXCEPT !.lock = t, !.task[t].pc = "establish"]
    ELSE [S EXCEPT !.waiters = Append(@, t), !.task[t].pc = "waitlock"]

\* Mutant of RunAttempt: turn_on / turn_off record the power state before
\* the write.
RunAttemptEager(S, t) ==
    LET f == [Top(S, t) EXCEPT !.data = Payload(S, Top(S, t))]
    IN  IF f.op = "turn_on"
        THEN IF S.model = "ELK-BLEDDM" /\ ~S.bleddm_variant_checked
             THEN EnsureConnected(
                      SetTop([S EXCEPT !.bleddm_variant_checked = TRUE,
                                       !.notification_received = FALSE,
                                       !.is_on = "True"],
                             t, [f EXCEPT !.phase = "primary"]), t)
             ELSE EnsureConnected(SetTop([S EXCEPT !.is_on = "True"], t,
                                         [f EXCEPT !.phase = "plain"]), t)
        ELSE IF f.op = "turn_off"
        THEN EnsureConnected([S EXCEPT !.is_on = "False"], t)
        ELSE IF f.op = "set_color_temp_kelvin"
        THEN EnsureConnected(
                 SetTop([S EXCEPT !.color_temp_kelvin = f.arg[1],
                                  !.brightness = f.arg[2]],
                        t, [f EXCEPT !.phase = "native"]), t)
        ELSE EnsureConnected(S, t)

\* Mutant of RunAttempt: the variant check does not record that it has run.
RunAttemptRecheck(S, t) ==
    LET f == [Top(S, t) EXCEPT !.data = Payload(S, Top(S, t))]
    IN  IF f.op = "turn_on"
        THEN IF S.model = "ELK-BLEDDM" /\ ~S.bleddm_variant_checked
             THEN EnsureConnected(
                      SetTop([S EXCEPT !.notification_received = FALSE,
                                       !.variant_checks =
                                           IF S.track THEN @ + 1 ELSE @],
                             t, [f EXCEPT !.phase = "primary"]), t)
             ELSE EnsureConnected(SetTop(S, t, [f EXCEPT !.phase = "plain"]), t)
        ELSE IF f.op = "set_color_temp_kelvin"
        THEN EnsureConnected(
                 SetTop([S EXCEPT !.color_temp_kelvin = f.arg[1],
                                  !.brightness = f.arg[2]],
                        t, [f EXCEPT !.phase = "native"]), t)
        ELSE EnsureConnected(SetTop(S, t, f), t)

\* The wrapped function of the top frame, from its first line to its first
\* suspension.
RunAttempt(S, t) ==
    LET f == [Top(S, t) EXCEPT !.data = Payload(S, Top(S, t))]
    IN  IF f.op = "turn_on"
        THEN IF S.model = "ELK-BLEDDM" /\ ~S.bleddm_variant_checked
             THEN EnsureConnected(
                      SetTop([S EXCEPT !.bleddm_variant_checked = TRUE,
                                       !.notification_received = FALSE,
                                       !.variant_checks =
                                           IF S.track THEN @ + 1 ELSE @],
                             t, [f EXCEPT !.phase = "primary"]), t)
             ELSE EnsureConnected(SetTop(S, t, [f EXCEPT !.phase = "plain"]), t)
        ELSE IF f.op = "set_color_temp_kelvin"
        THEN EnsureConnected(
                 SetTop([S EXCEPT !.color_temp_kelvin = f.arg[1],
                                  !.brightness = f.arg[2]],
                        t, [f EXCEPT !.phase = "native"]), t)
        ELSE EnsureConnected(SetTop(S, t, f), t)

\* The locked section of _ensure_connected, entered from the lock's queue.
LockedSection(S, t) ==
    IF Connected(S) THEN AfterEnsure(Release(ResetDisconnectTimer(S)), t)
    ELSE SetPc(S, t, "establish")

\* Lines 967-978, after _login_command: notifications enabled, the lock
\* released on leaving the locked section.
AfterLogin(S, t) ==
    IF ~NoNotifyName(S.model) /\ S.read_uuid
    THEN SetPc(S, t, "subscribe")
    ELSE AfterEnsure(Release(S), t)

\* await self._write(...) inside _login_command, which runs in the locked
\* section: _ensure_connected returns at once on a connected client; on a
\* client whose link is down it goes on to `async with self._connect_lock`,
\* and the lock, held by this very task, is not free: the task joins the
\* lock's queue.
LoginWrite(S, t, pc) ==
    IF Connected(S)
    THEN [ResetDisconnectTimer(S) EXCEPT
             !.task[t].pc = pc,
             !.task[t].writes = IF S.track THEN @ + 1 ELSE @]
    ELSE [S EXCEPT !.waiters = Append(@, t), !.task[t].pc = "login_waitlock"]

\* write_gatt_char of the handshake has ended: asyncio.sleep(1) follows a
\* write that returned; an exception ends the handshake (it is logged).
LoginWriteDone(S, t, out) ==
    IF out # "ok" THEN AfterLogin(S, t)
    ELSE SetPc(S, t, IF S.task[t].pc = "login_write1" THEN "login_sleep1"
                     ELSE "login_sleep2")

\* asyncio.sleep(1) of the handshake has ended.
LoginSleepDone(S, t) ==
    IF S.task[t].pc = "login_sleep1" THEN LoginWrite(S, t, "login_write2")
    ELSE AfterLogin(S, t)

\* Lines 960-978: the client is kept, the timer armed, notifications enabled.
ConnectFinish(S, t) ==
    LET S1 == ResetDisconnectTimer([S EXCEPT !.client = S.task[t].conn])
    IN  IF IsModelX(S1.device_name) THEN LoginWrite(S1, t, "login_write1")
        ELSE AfterLogin(S1, t)

\* _disconnected, the callback bleak runs when a client's link ends: what it
\* reports depends on the flag alone.
DisconnectedCallback(S) ==
    IF S.expected_disconnect THEN "expected" ELSE "unexpected"

\* History: client c's disconnect() has been called once more.
CountDisconnect(S, c) ==
    IF S.track THEN [S EXCEPT !.disconnect_calls[c] = @ + 1] ELSE S

\* establish_connection has ended with `out`.
EstablishDone(S, t, out, hasRead, hasWrite) ==
    IF out = "TimeoutError" THEN AfterEnsure(Release(S), t)
    ELSE IF out # "ok" THEN Raise(Release(S), t, out)
    ELSE LET c == S.nclients + 1
             S1 == [S EXCEPT !.nclients = c, !.linkUp = @ \cup {c},
                             !.task[t].conn = c]
             S2 == ResolveCharacteristics(S1, hasRead, hasWrite)
         IN  IF Resolved(S2) THEN ConnectFinish(S2, t)
             ELSE SetPc(S2, t, "refetch")

\* client.get_services() has ended with `out`.
RefetchDone(S, t, out, hasRead, hasWrite) ==
    IF out = "BleakError" THEN Raise(Release(S), t, out)
    ELSE LET S1 == IF out = "ok" THEN ResolveCharacteristics(S, hasRead, hasWrite)
                   ELSE S
         IN  IF Resolved(S1) THEN ConnectFinish(S1, t)
             ELSE SetPc(S1, t, "teardown")

\* clear_cache() and disconnect() of the new client, then the raise.
TeardownDone(S, t) ==
    LET c == S.task[t].conn
    IN  Raise(Release(CountDisconnect(
                  [S EXCEPT !.linkUp = @ \ {c}, !.subscribed = @ \ {c}], c)),
              t, "CharacteristicMissingError")

\* start_notify has ended (its exceptions are caught).
SubscribeDone(S, t, ok) ==
    LET c == S.task[t].conn
        S1 == IF ok /\ c \in S.linkUp
              THEN [S EXCEPT !.subscribed = @ \cup {c}] ELSE S
    IN  AfterEnsure(Release(S1), t)

\* The assignment a setter makes after its write returned.
Optimistic(S, f) ==
    CASE f.op = "turn_on" -> [S EXCEPT !.is_on = "True"]
      [] f.op = "turn_off" -> [S EXCEPT !.is_on = "False"]
      [] f.op = "set_color" -> [S EXCEPT !.rgb_color = f.arg]
      [] f.op \in {"set_white", "set_brightness"} -> [S EXCEPT !.brightness = f.arg]
      [] OTHER -> S

\* write_gatt_char has ended with `out`.
WriteDone(S, t, out) ==
    LET f == Top(S, t)
    IN  IF out # "ok" THEN Raise(S, t, out)
        ELSE IF f.op = "turn_on" /\ f.phase = "primary"
        THEN SetPc(S, t, "variant_wait")
        ELSE FrameReturn(Optimistic(S, f), t)

\* Mutant of VariantWaitDone: the primary template written again.
VariantWaitDoneNoSwap(S, t) ==
    LET f == Top(S, t)
    IN  IF ~S.notification_received
        THEN EnsureConnected(SetTop(S, t, [f EXCEPT !.phase = "alt"]), t)
        ELSE FrameReturn(Optimistic(S, f), t)

\* turn_on after asyncio.sleep(0.3).
VariantWaitDone(S, t) ==
    LET f == Top(S, t)
        S1 == [S EXCEPT !.alt_cmds = TRUE]
    IN  IF ~S.notification_received
        THEN EnsureConnected(SetTop(S1, t, [f EXCEPT !.phase = "alt",
                                                     !.data = TurnOnCmd(S1)]), t)
        ELSE FrameReturn(Optimistic(S, f), t)

\* -------------------------------------------------------------- query_state
\* device_key = f"{self.name}_{self._model}": the device name is fixed in a
\* session, so the keys of the cache file differ by the model.
DeviceKey(S) == S.model

\* _load_working_query_cmd: the command out of the cache file, when the file
\* has the device key.
LoadWorkingQueryCmd(S) ==
    IF S.cache[DeviceKey(S)] # <<>>
    THEN [S EXCEPT !.working_query_cmd = S.cache[DeviceKey(S)]]
    ELSE S

\* The write of the cache file by the session of the device at `address`:
\* cache[device_key] = {...}; the entry holds the command, the description,
\* the name and the model, and the key is made of the name and the model.
SaveEntry(S, address, cmd) ==
    [S EXCEPT !.cache[DeviceKey(S)] = cmd,
              !.cache_owner[DeviceKey(S)] = address]

\* _save_working_query_cmd: the file is read, the device key set, the whole
\* mapping written back.
SaveWorkingQueryCmd(S, cmd) ==
    SaveEntry(S, Address, cmd)

\* query_state returns.
QueryReturn(S, t) ==
    [S EXCEPT !.task[t].pc = "done", !.task[t].exc = "none",
              !.task[t].conn = 0, !.task[t].cand = 0]

\* query_state calls _write_while_connected(cmd) with the client set: the
\* coroutine is suspended in write_gatt_char, at pc.
QueryWrite(S, t, cmd, pc) ==
    [S EXCEPT !.task[t].pc = pc, !.task[t].conn = S.client,
              !.query_writes = Append(@, cmd)]

\* The detection loop from candidate i on, up to the next await: with no
\* client _write_while_connected raises at once and the loop continues.
RECURSIVE ProbeFrom(_, _, _)
ProbeFrom(S, t, i) ==
    IF i > Len(QUERY_COMMANDS)
    THEN QueryReturn([S EXCEPT !.query_detection_done = TRUE], t)
    ELSE LET S1 == [S EXCEPT !.notification_received = FALSE,
                             !.task[t].cand = i]
         IN  IF S1.client = 0 THEN ProbeFrom(S1, t, i + 1)
             ELSE QueryWrite(S1, t, QUERY_COMMANDS[i], "q_probe_write")

\* Mutant of QueryState: detection is attempted again by a call that finds no
\* working command.
QueryStateReprobe(S, t) ==
    IF ~Connected(S) THEN QueryReturn(S, t)
    ELSE IF S.working_query_cmd # <<>>
    THEN QueryWrite(S, t, S.working_query_cmd, "q_write")
    ELSE LET S1 == LoadWorkingQueryCmd(S)
         IN  IF S1.working_query_cmd # <<>>
             THEN QueryWrite([S1 EXCEPT !.query_detection_done = TRUE], t,
                             S1.working_query_cmd, "q_write")
             ELSE ProbeFrom([S EXCEPT !.probed = TRUE], t, 1)

\* Mutant of QueryState: the cache file is not looked at.
QueryStateNoCache(S, t) ==
    IF ~Connected(S) THEN QueryReturn(S, t)
    ELSE IF S.working_query_cmd # <<>>
    THEN QueryWrite(S, t, S.working_query_cmd, "q_write")
    ELSE IF S.query_detection_done THEN QueryReturn(S, t)
    ELSE ProbeFrom([S EXCEPT !.probed = TRUE], t, 1)

\* query_state up to its first await.
QueryState(S, t) ==
    IF ~Connected(S) THEN QueryReturn(S, t)
    ELSE IF S.working_query_cmd # <<>>
    THEN QueryWrite(S, t, S.working_query_cmd, "q_write")
    ELSE IF S.query_detection_done THEN QueryReturn(S, t)
    ELSE LET S1 == LoadWorkingQueryCmd(S)
         IN  IF S1.working_query_cmd # <<>>
             THEN QueryWrite([S1 EXCEPT !.query_detection_done = TRUE], t,
                             S1.working_query_cmd, "q_write")
             ELSE ProbeFrom([S EXCEPT !.probed = TRUE], t, 1)

\* The device has taken a frame written on client c: it answers the one
\* catalog entry it knows, on a client that has notifications enabled.
DeviceReceives(S, c, cmd) ==
    IF S.responds_to # 0 /\ cmd = QUERY_COMMANDS[S.responds_to]
       /\ c \in S.subscribed
    THEN [S EXCEPT !.response_pending = TRUE]
    ELSE S

\* write_gatt_char of the known or cached command has ended with `out`.
QueryWriteDone(S, t, out) ==
    IF out # "ok" THEN QueryReturn(S, t)
    ELSE SetPc(DeviceReceives(S, S.task[t].conn,
                              S.query_writes[Len(S.query_writes)]),
               t, "q_sleep")

\* write_gatt_char of candidate cand has ended with `out`.
ProbeWriteDone(S, t, out) ==
    IF out # "ok" THEN ProbeFrom(S, t, S.task[t].cand + 1)
    ELSE SetPc(DeviceReceives(S, S.task[t].conn,
                              QUERY_COMMANDS[S.task[t].cand]),
               t, "q_probe_sleep")

\* The detection loop after asyncio.sleep(0.4).
ProbeSleepDone(S, t) ==
    LET cmd == QUERY_COMMANDS[S.task[t].cand]
    IN  IF S.notification_received
        THEN QueryReturn(
                 [SaveWorkingQueryCmd([S EXCEPT !.working_query_cmd = cmd], cmd)
                     EXCEPT !.query_detection_done = TRUE], t)
        ELSE ProbeFrom(S, t, S.task[t].cand + 1)

\* The wrapper after asyncio.sleep(BLEAK_BACKOFF_TIME).
SleepDone(S, t) ==
    RunAttempt(SetTop(S, t, [Top(S, t) EXCEPT !.attempt = @ + 1]), t)

\* --------------------------------------------------------------- disconnect
DFinish(S, t) ==
    IF t \in Callers
    THEN [S EXCEPT !.task[t].pc = "done", !.task[t].exc = "none",
                   !.task[t].conn = 0]
    ELSE [S EXCEPT !.task[t] = IdleTask]

\* Mutant of DLocked: the observed power forgotten on disconnect.
DLockedForgets(S, t) ==
    LET c == S.client
        S1 == [S EXCEPT !.expected_disconnect = TRUE, !.client = 0,
                        !.write_uuid = FALSE, !.read_uuid = FALSE,
                        !.is_on = "None", !.task[t].conn = c]
    IN  IF c # 0 /\ c \in S.linkUp
        THEN SetPc(S1, t, IF NoNotifyName(S.model) THEN "d_disconnect"
                           ELSE "d_stop_notify")
        ELSE DFinish(Release(S1), t)

\* Mutant of DLocked: the session keeps its client.
DLockedKeepsClient(S, t) ==
    LET c == S.client
        S1 == [S EXCEPT !.expected_disconnect = TRUE,
                        !.write_uuid = FALSE, !.read_uuid = FALSE,
                        !.task[t].conn = c]
    IN  IF c # 0 /\ c \in S.linkUp
        THEN SetPc(S1, t, IF NoNotifyName(S.model) THEN "d_disconnect"
                           ELSE "d_stop_notify")
        ELSE DFinish(Release(S1), t)

\* _execute_disconnect inside the lock, to its first suspension.
DLocked(S, t) ==
    LET c == S.client
        S1 == [S EXCEPT !.expected_disconnect = TRUE, !.client = 0,
                        !.write_uuid = FALSE, !.read_uuid = FALSE,
                        !.task[t].conn = c]
    IN  IF c # 0 /\ c \in S.linkUp
        THEN SetPc(S1, t, IF NoNotifyName(S.model) THEN "d_disconnect"
                           ELSE "d_stop_notify")
        ELSE DFinish(Release(S1), t)

\* Mutant of ExecuteDisconnect: the disconnect made without the lock.
ExecuteDisconnectNoLock(S, t) == DLocked(S, t)

\* _execute_disconnect from its first line.
ExecuteDisconnect(S, t) ==
    IF S.lock = Free /\ S.waiters = <<>> THEN DLocked([S EXCEPT !.lock = t], t)
    ELSE [S EXCEPT !.waiters = Append(@, t), !.task[t].pc = "d_waitlock"]

StopNotifyDone(S, t, ok) ==
    IF ok THEN SetPc([S EXCEPT !.subscribed = @ \ {S.task[t].conn}], t, "d_disconnect")
    ELSE DFinish(Release(S), t)

ClientDisconnectDone(S, t, ok) ==
    LET c == S.task[t].conn
    IN  DFinish(Release(CountDisconnect(
                    IF ok THEN [S EXCEPT !.linkUp = @ \ {c},
                                         !.subscribed = @ \ {c}]
                    ELSE S, c)), t)

\* ================================================================= actions
\* __init__'s assignments, except those _detect_model makes.
InitFields ==
    /\ result = <<>>
    /\ client = 0
    /\ linkUp = {}
    /\ subscribed = {}
    /\ nclients = 0
    /\ lock = Free
    /\ waiters = <<>>
    /\ disconnect_timer = "None"
    /\ live_timers = 0
    /\ disconnect_calls = [c \in 1..MaxConns |-> 0]
    /\ expected_disconnect = FALSE
    /\ read_uuid = FALSE
    /\ write_uuid = FALSE
    /\ is_on = "None"
    /\ rgb_color = NoRGB
    /\ color_temp_kelvin = NoKelvin
    /\ brightness = 255
    /\ notification_received = FALSE
    /\ bleddm_variant_checked = FALSE
    /\ alt_cmds = FALSE
    /\ variant_checks = 0
    /\ working_query_cmd = <<>>
    /\ query_detection_done = FALSE
    /\ response_pending = FALSE
    /\ probed = FALSE
    /\ query_writes = <<>>
    /\ ncalls = 0
    /\ updated = FALSE
    /\ task = [t \in Procs |-> IdleTask]

\* The session after construction.
InitSession ==
    /\ device_name \in SessionNames
    /\ model = DetectModel(device_name)
    /\ config = model
    /\ rgb_gains = MODEL_DB[model].default_rgb_gains
    /\ call_args = NoCall
    /\ InitFields

\* Task t calls a retry-wrapped public operation, one of ops; the behaviour
\* makes at most `limit` calls.
Call(t, ops, limit) ==
    /\ task[t].pc = "idle"
    /\ ncalls < limit
    /\ \E op \in ops : \E arg \in ArgsOf(op) :
         Commit(RunAttempt(
             [State EXCEPT !.ncalls = @ + 1, !.task[t] =
                 [IdleTask EXCEPT !.op = op, !.stack = <<NewFrame(op, arg)>>]], t))

\* A host task calls stop().
Stop(t) ==
    /\ t = "poll"
    /\ task[t].pc = "idle"
    /\ ncalls < MaxCalls
    /\ Commit(ExecuteDisconnect([State EXCEPT !.ncalls = @ + 1,
                                               !.task[t].op = "stop"], t))

\* The host task takes the result of its call.
Return(t) ==
    /\ task[t].pc = "done"
    /\ Commit([State EXCEPT !.task[t] = IdleTask])

\* The lock passes to the first task of its queue.
AcquireLock(t) ==
    /\ lock = Free
    /\ waiters # <<>>
    /\ Head(waiters) = t
    /\ LET S1 == [State EXCEPT !.lock = t, !.waiters = Tail(@)]
       IN  IF task[t].pc = "waitlock" THEN Commit(LockedSection(S1, t))
           ELSE Commit(DLocked(S1, t))

Establish(t) ==
    /\ task[t].pc = "establish"
    /\ \E out \in ConnectErrors \cup {"ok"} : \E hasRead, hasWrite \in BOOLEAN :
         /\ out = "ok" => nclients < MaxConns
         /\ out # "ok" => hasRead /\ hasWrite
         /\ Commit(EstablishDone(State, t, out, hasRead, hasWrite))

Refetch(t) ==
    /\ task[t].pc = "refetch"
    /\ \E out \in {"ok", "AttributeError", "BleakError"} :
       \E hasRead, hasWrite \in BOOLEAN :
         /\ out # "ok" => hasRead /\ hasWrite
         /\ Commit(RefetchDone(State, t, out, hasRead, hasWrite))

Teardown(t) ==
    /\ task[t].pc = "teardown"
    /\ Commit(TeardownDone(State, t))

Subscribe(t) ==
    /\ task[t].pc = "subscribe"
    /\ \E ok \in BOOLEAN : Commit(SubscribeDone(State, t, ok))

Write(t) ==
    /\ task[t].pc = "write"
    /\ \E out \in WriteErrors \cup {"ok"} :
         /\ out = "ok" => task[t].conn \in linkUp
         /\ Commit(WriteDone(State, t, out))

VariantWait(t) ==
    /\ task[t].pc = "variant_wait"
    /\ Commit(VariantWaitDone(State, t))

Sleep(t) ==
    /\ task[t].pc = "sleep"
    /\ Commit(SleepDone(State, t))

StopNotify(t) ==
    /\ task[t].pc = "d_stop_notify"
    /\ \E ok \in BOOLEAN : Commit(StopNotifyDone(State, t, ok))

ClientDisconnect(t) ==
    /\ task[t].pc = "d_disconnect"
    /\ \E ok \in BOOLEAN : Commit(ClientDisconnectDone(State, t, ok))

\* A live handle fires: _disconnect() forgets the handle the session holds
\* and creates the timed-disconnect task.
TimerFire(d) ==
    /\ live_timers > 0
    /\ task[d].pc = "idle"
    /\ Commit([State EXCEPT !.disconnect_timer = "None",
                            !.live_timers = @ - 1,
                            !.task[d].pc = "created", !.task[d].op = "timed"])

\* The timed-disconnect task runs for the first time.
TimedRun(d) ==
    /\ task[d].pc = "created"
    /\ Commit(ExecuteDisconnect(State, d))

\* write_gatt_char of the login handshake ends.
LoginWriteEnd(t) ==
    /\ task[t].pc \in {"login_write1", "login_write2"}
    /\ \E out \in WriteErrors \cup {"ok"} :
         /\ out = "ok" => task[t].conn \in linkUp
         /\ Commit(LoginWriteDone(State, t, out))

\* asyncio.sleep(1) of the login handshake ends.
LoginSleep(t) ==
    /\ task[t].pc \in {"login_sleep1", "login_sleep2"}
    /\ Commit(LoginSleepDone(State, t))

\* A host task calls query_state().
QueryCall(t) ==
    /\ task[t].pc = "idle"
    /\ ncalls < MaxQueryCalls
    /\ Commit(QueryState([State EXCEPT !.ncalls = @ + 1,
                                       !.task[t].op = "query_state"], t))

QueryWriteEnd(t) ==
    /\ task[t].pc = "q_write"
    /\ \E out \in WriteErrors \cup {"ok"} :
         /\ out = "ok" => task[t].conn \in linkUp
         /\ Commit(QueryWriteDone(State, t, out))

\* asyncio.sleep(0.2) after the known command.
QuerySleep(t) ==
    /\ task[t].pc = "q_sleep"
    /\ Commit(QueryReturn(State, t))

ProbeWrite(t) ==
    /\ task[t].pc = "q_probe_write"
    /\ \E out \in WriteErrors \cup {"ok"} :
         /\ out = "ok" => task[t].conn \in linkUp
         /\ Commit(ProbeWriteDone(State, t, out))

ProbeSleep(t) ==
    /\ task[t].pc = "q_probe_sleep"
    /\ Commit(ProbeSleepDone(State, t))

\* The device's answer reaches the session's notification handler.
Respond(data) ==
    /\ response_pending
    /\ subscribed \cap linkUp # {}
    /\ Commit(NotificationHandler([State EXCEPT !.response_pending = FALSE],
                                  data))

\* The device, or the radio, drops the link of a client.
LinkDrop(c) ==
    /\ c \in linkUp
    /\ Commit([State EXCEPT !.linkUp = @ \ {c}, !.subscribed = @ \ {c}])

\* The device sends a notification on a subscribed client.
Notify(data) ==
    /\ subscribed \cap linkUp # {}
    /\ Commit(NotificationHandler(State, data))

\* ---------------------------------------------------------- specifications
\* No cache file, and a device that answers no query.
InitNoCache ==
    /\ cache = [m \in Models |-> <<>>]
    /\ cache_at_start = cache
    /\ cache_owner = [m \in Models |-> NoAddress]
    /\ responds_to = 0

\* The session: the entity layer's commands, the coordinator's update() and
\* stop(), the idle timer and the device, all interleaved.
Init ==
    /\ InitSession
    /\ InitNoCache
    /\ delay \in Delays
    /\ track = FALSE

Next ==
    \/ \E t \in Callers : Call(t, SessionOps(t), MaxCalls)
    \/ \E t \in Callers : Stop(t)
    \/ \E t \in Callers : Return(t)
    \/ \E t \in Procs : AcquireLock(t)
    \/ \E t \in Callers : Establish(t)
    \/ \E t \in Callers : Refetch(t)
    \/ \E t \in Callers : Teardown(t)
    \/ \E t \in Callers : Subscribe(t)
    \/ \E t \in Callers : Write(t)
    \/ \E t \in Callers : VariantWait(t)
    \/ \E t \in Callers : Sleep(t)
    \/ \E t \in Procs : StopNotify(t)
    \/ \E t \in Procs : ClientDisconnect(t)
    \/ \E d \in Timed : TimerFire(d)
    \/ \E d \in Timed : TimedRun(d)
    \/ \E c \in 1..MaxConns : LinkDrop(c)
    \/ \E data \in NotifFrames : Notify(data)

Spec == Init /\ [][Next]_vars

\* The retry wrapper: one host task calls any wrapped operation on a session
\* configured without idle disconnect, the frames recording their history.
InitRetry ==
    /\ InitSession
    /\ InitNoCache
    /\ delay = 0
    /\ track = TRUE

NextRetry ==
    \/ Call("cmd", WrappedOps, MaxRetryCalls)
    \/ Return("cmd")
    \/ Establish("cmd")
    \/ Refetch("cmd")
    \/ Teardown("cmd")
    \/ Subscribe("cmd")
    \/ Write("cmd")
    \/ VariantWait("cmd")
    \/ Sleep("cmd")
    \/ \E c \in 1..MaxConns : LinkDrop(c)
    \/ \E data \in NotifFrames : Notify(data)

SpecRetry == InitRetry /\ [][NextRetry]_vars

\* The idle timer: the entity layer writes colours, the config entry is torn
\* down with stop(), and the loop fires the timer of a session configured with
\* an idle delay; the history of disconnect() calls is recorded. The loop
\* runs every task that is ready, and every awaited call of the BLE stack
\* ends (by its result, its error or its timeout).
IdleTimed == {TimedNames[i] : i \in 1..MaxIdleTimed}
IdleProcs == Callers \cup IdleTimed

InitIdle ==
    /\ InitSession
    /\ InitNoCache
    /\ delay = 1
    /\ track = TRUE

\* The steps of the loop and of the BLE stack: what goes on without the host
\* or the device doing anything.
IdleProgress ==
    \/ \E t \in Callers : Return(t)
    \/ \E t \in IdleProcs : AcquireLock(t)
    \/ Establish("cmd")
    \/ Refetch("cmd")
    \/ Teardown("cmd")
    \/ Subscribe("cmd")
    \/ Write("cmd")
    \/ Sleep("cmd")
    \/ \E t \in IdleProcs : StopNotify(t)
    \/ \E t \in IdleProcs : ClientDisconnect(t)
    \/ \E d \in IdleTimed : TimerFire(d)
    \/ \E d \in IdleTimed : TimedRun(d)

NextIdle ==
    \/ Call("cmd", {"set_color"}, MaxCalls)
    \/ Stop("poll")
    \/ IdleProgress
    \/ \E c \in 1..MaxConns : LinkDrop(c)

FairIdle == WF_vars(IdleProgress)

SpecIdle == InitIdle /\ [][NextIdle]_vars /\ FairIdle

\* The variant check: one host task switches an ELK-BLEDDM session on and off,
\* with every failure of the connection and of the writes, link drops and
\* notifications; the variant checks begun are counted.
InitVariant ==
    /\ InitSession
    /\ InitNoCache
    /\ model = "ELK-BLEDDM"
    /\ delay = 0
    /\ track = TRUE

NextVariant ==
    \/ Call("cmd", {"turn_on", "turn_off"}, MaxVariantCalls)
    \/ Return("cmd")
    \/ Establish("cmd")
    \/ Refetch("cmd")
    \/ Teardown("cmd")
    \/ Subscribe("cmd")
    \/ Write("cmd")
    \/ VariantWait("cmd")
    \/ Sleep("cmd")
    \/ \E c \in 1..MaxConns : LinkDrop(c)
    \/ \E data \in NotifFrames : Notify(data)

SpecVariant == InitVariant /\ [][NextVariant]_vars


\* Template changes: the host task of SpecVariant on a session for a device
\* named ELK-BLEDOM (model ELK-BLE) or ELK-BLEDDM.
TemplateNames == {ELK_BLEDOM, KeyChars[1]}

InitTemplates ==
    /\ device_name \in TemplateNames
    /\ model = DetectModel(device_name)
    /\ config = model
    /\ rgb_gains = MODEL_DB[model].default_rgb_gains
    /\ call_args = NoCall
    /\ InitFields
    /\ InitNoCache
    /\ delay = 0
    /\ track = FALSE

SpecTemplates == InitTemplates /\ [][NextVariant]_vars

\* Model resolution: _detect_model applied to every device name of
\* DeviceNames.
NameSuffixes == {<<>>, <<"D", "O", "M">>, <<"-", "0", "1">>, <<"2">>}

\* A key spelled as in MODEL_DB, with the first character lowered, and in
\* lower case.
Spellings(s) == {s, <<LowerChar(s[1])>> \o Tail(s), Lower(s)}

DeviceNames ==
    UNION {Spellings(KeyChars[i] \o suffix) :
               i \in 1..Len(KeyChars), suffix \in NameSuffixes}
    \cup {<<>>, <<"L", "E", "D">>, <<"E", "L", "K">>, <<"X">> \o KeyChars[1],
          <<"B", "L", "E", "D", "O", "M">>, NoName}

InitDetect ==
    /\ device_name \in DeviceNames
    /\ model = "None"
    /\ config = "None"
    /\ rgb_gains = <<100, 100, 100>>
    /\ call_args = NoCall
    /\ InitFields
    /\ InitNoCache
    /\ delay = 0
    /\ track = FALSE

DetectModelStep ==
    /\ model = "None"
    /\ Commit([State EXCEPT
                  !.model = DetectModel(device_name),
                  !.config = DetectModel(device_name),
                  !.rgb_gains = MODEL_DB[DetectModel(device_name)].default_rgb_gains])

NextDetect == DetectModelStep

SpecDetect == InitDetect /\ [][NextDetect]_vars

\* The colour frame: one host task calls set_color with in-range and
\* out-of-range channels while the host changes the RGB gains; connections and
\* writes fail and are retried.
ColorArgs == {<<255, 0, 0>>, <<200, 75, 25>>, <<300, -5, 255>>}
GainArgs == {<<100, 100, 100>>, <<50, 150, 200>>, <<-50, 88, 38>>}

InitColor ==
    /\ InitSession
    /\ InitNoCache
    /\ delay = 0
    /\ track = FALSE

SetColorCall(t) ==
    /\ task[t].pc = "idle"
    /\ ncalls < MaxColorCalls
    /\ \E rgb \in ColorArgs :
         Commit(RunAttempt(
             [State EXCEPT !.ncalls = @ + 1, !.task[t] =
                 [IdleTask EXCEPT !.op = "set_color",
                                  !.stack = <<NewFrame("set_color", rgb)>>]], t))

\* The host calls set_rgb_gains.
SetRGBGainsCall(g) ==
    /\ g \in GainArgs
    /\ Commit(SetRGBGains(State, g))

NextColor ==
    \/ SetColorCall("cmd")
    \/ \E g \in GainArgs : SetRGBGainsCall(g)
    \/ Return("cmd")
    \/ Establish("cmd")
    \/ Refetch("cmd")
    \/ Teardown("cmd")
    \/ Subscribe("cmd")
    \/ Write("cmd")
    \/ Sleep("cmd")
    \/ \E c \in 1..MaxConns : LinkDrop(c)

SpecColor == InitColor /\ [][NextColor]_vars

\* The notification handler called on its own, on frames of every shape:
\* status frames with each power byte, colour and brightness, valid frames
\* of another type, and frames that fail the framing check.
PowerBytes == {35, 240, 1, 36, 0, 99}
ColourBytes == {<<255, 255, 255>>, <<255, 0, 0>>, <<255, 255, 0>>}
BrightnessBytes == {255, 50, 200}

StatusFrames ==
    {<<126, 0, 1, p, c[1], c[2], c[3], b, 239>> :
        p \in PowerBytes, c \in ColourBytes, b \in BrightnessBytes}

HandlerFrames ==
    StatusFrames
    \cup { <<126, 0, 2, 35, 255, 0, 0, 50, 239>>,      \* valid, not status
           <<126, 0, 0, 36, 255, 255, 0, 200, 239>>,   \* valid, not status
           <<126, 0, 1, 36, 255, 0, 0, 50, 239, 0>>,   \* valid, 10 bytes
           <<0, 0, 1, 35, 255, 0, 0, 50, 239>>,        \* first byte wrong
           <<126, 0, 1, 36, 255, 255, 0, 200, 0>>,     \* ninth byte wrong
           <<126, 0, 1, 35, 255, 0, 0, 50>>,           \* 8 bytes
           <<126, 16>>, <<>> }                         \* short

InitNotify ==
    /\ InitSession
    /\ InitNoCache
    /\ delay = 0
    /\ track = FALSE

\* bleak calls _notification_handler(sender, data).
NotifyStep(data) ==
    /\ data \in HandlerFrames
    /\ Commit([NotificationHandler(State, data) EXCEPT !.call_args =
                  [fn |-> "_notification_handler", template |-> <<>>,
                   value |-> data]])

\* A caller that waits for an answer clears the flag (turn_on, query_state).
ExpectResponse ==
    /\ notification_received
    /\ Commit([State EXCEPT !.notification_received = FALSE,
                            !.call_args = NoCall])

NextNotify ==
    \/ \E data \in HandlerFrames : NotifyStep(data)
    \/ ExpectResponse

SpecNotify == InitNotify /\ [][NextNotify]_vars

\* The Kelvin setter: one host task calls set_color_temp_kelvin with values
\* below, at, inside, at and above the model's range, the frames recording
\* their history.
KelvinCallArgs ==
    {<<1000, 128>>, <<1800, 255>>, <<3000, 128>>, <<7000, 255>>, <<9000, 128>>}

InitKelvin ==
    /\ InitSession
    /\ InitNoCache
    /\ delay = 0
    /\ track = TRUE

KelvinCall(t) ==
    /\ task[t].pc = "idle"
    /\ ncalls < MaxKelvinCalls
    /\ \E arg \in KelvinCallArgs :
         Commit(RunAttempt(
             [State EXCEPT !.ncalls = @ + 1, !.task[t] =
                 [IdleTask EXCEPT !.op = "set_color_temp_kelvin",
                                  !.stack = <<NewFrame("set_color_temp_kelvin",
                                                       arg)>>]], t))

NextKelvin ==
    \/ KelvinCall("cmd")
    \/ Return("cmd")
    \/ Establish("cmd")
    \/ Refetch("cmd")
    \/ Teardown("cmd")
    \/ Subscribe("cmd")
    \/ Write("cmd")
    \/ Sleep("cmd")
    \/ \E c \in 1..MaxConns : LinkDrop(c)
    \/ \E data \in NotifFrames : Notify(data)

SpecKelvin == InitKelvin /\ [][NextKelvin]_vars

\* The scheduler setters called on their own, for every day mask: the list
\* set_scheduler_on / set_scheduler_off hands to _write.
SchedulerFrame(fn, days, hours, minutes, enabled) ==
    LET value == IF enabled THEN days + 128 ELSE days
    IN  <<126, 0, 130, hours, minutes, 0,
          IF fn = "set_scheduler_on" THEN 0 ELSE 1, value, 239>>

DayMasks == 0..255

InitScheduler ==
    /\ call_args \in {[fn |-> fn, template |-> <<>>,
                       value |-> <<days, 7, 30, enabled>>] :
                         fn \in {"set_scheduler_on", "set_scheduler_off"},
                         days \in DayMasks, enabled \in BOOLEAN}
    /\ device_name \in SessionNames
    /\ model = DetectModel(device_name)
    /\ config = model
    /\ rgb_gains = MODEL_DB[model].default_rgb_gains
    /\ InitFields
    /\ InitNoCache
    /\ delay = 0
    /\ track = FALSE

SchedulerStep ==
    /\ result = <<>>
    /\ Commit([State EXCEPT !.result =
                  SchedulerFrame(call_args.fn, call_args.value[1],
                                 call_args.value[2], call_args.value[3],
                                 call_args.value[4])])

NextScheduler == SchedulerStep

SpecScheduler == InitScheduler /\ [][NextScheduler]_vars

\* The idle timer against a command: one host task calls turn_off and
\* set_color on a session with an idle delay, and the device keeps every link
\* up, so that a link ends only when the session disconnects it. With one
\* caller suspended in its write nothing else re-arms the timer: a timer
\* pending then is the one armed for that command.
InitRearm ==
    /\ InitSession
    /\ InitNoCache
    /\ delay = 1
    /\ track = FALSE

NextRearm ==
    \/ Call("cmd", {"turn_off", "set_color"}, MaxCalls)
    \/ Return("cmd")
    \/ \E t \in Procs : AcquireLock(t)
    \/ Establish("cmd")
    \/ Refetch("cmd")
    \/ Teardown("cmd")
    \/ Subscribe("cmd")
    \/ Write("cmd")
    \/ Sleep("cmd")
    \/ \E t \in Procs : StopNotify(t)
    \/ \E t \in Procs : ClientDisconnect(t)
    \/ \E d \in Timed : TimerFire(d)
    \/ \E d \in Timed : TimedRun(d)
    \/ \E data \in NotifFrames : Notify(data)

SpecRearm == InitRearm /\ [][NextRearm]_vars

\* The login handshake: two host tasks call turn_off and update on a session
\* for a device named MODELX or ELK-BLEDDM. The loop and the BLE stack go on
\* whatever the host and the device do.
LoginNames == {MODELX, KeyChars[1]}

InitLogin ==
    /\ device_name \in LoginNames
    /\ model = DetectModel(device_name)
    /\ config = model
    /\ rgb_gains = MODEL_DB[model].default_rgb_gains
    /\ call_args = NoCall
    /\ InitFields
    /\ InitNoCache
    /\ delay = 0
    /\ track = FALSE

LoginProgress ==
    \/ \E t \in Callers : Return(t)
    \/ \E t \in Callers : AcquireLock(t)
    \/ \E t \in Callers : Establish(t)
    \/ \E t \in Callers : Refetch(t)
    \/ \E t \in Callers : Teardown(t)
    \/ \E t \in Callers : Subscribe(t)
    \/ \E t \in Callers : LoginWriteEnd(t)
    \/ \E t \in Callers : LoginSleep(t)
    \/ \E t \in Callers : Write(t)
    \/ \E t \in Callers : Sleep(t)

NextLogin ==
    \/ Call("cmd", {"turn_off"}, MaxCalls)
    \/ Call("poll", {"update"}, MaxCalls)
    \/ LoginProgress
    \/ \E c \in 1..MaxConns : LinkDrop(c)
    \/ \E data \in NotifFrames : Notify(data)

FairLogin == WF_vars(LoginProgress)

SpecLogin == InitLogin /\ [][NextLogin]_vars /\ FairLogin

\* The command builders called on their own: each of get_white_cmd,
\* get_effect_speed_cmd and get_effect_cmd on every template MODEL_DB has for
\* it, on a template without 0xbb (MODEL_DB has none) and on no template.
Builders == {"get_white_cmd", "get_effect_speed_cmd", "get_effect_cmd"}

TemplateField(fn) ==
    CASE fn = "get_white_cmd" -> "white_cmd"
      [] fn = "get_effect_speed_cmd" -> "effect_speed_cmd"
      [] fn = "get_effect_cmd" -> "effect_cmd"

TemplatesOf(fn) ==
    {MODEL_DB[ModelKeys[i]][TemplateField(fn)] : i \in 1..Len(ModelKeys)}
    \cup {<<126, 0, 1, 100, 0, 0, 0, 0, 239>>, NoTemplate}

BuilderValues == {0, 1, 128, 255}

InitBuild ==
    /\ call_args \in {[fn |-> fn, template |-> cmd, value |-> v] :
                         fn \in Builders, cmd \in UNION {TemplatesOf(f) : f \in Builders},
                         v \in BuilderValues}
    /\ call_args.template \in TemplatesOf(call_args.fn)
    /\ device_name \in SessionNames
    /\ model = DetectModel(device_name)
    /\ config = model
    /\ rgb_gains = MODEL_DB[model].default_rgb_gains
    /\ InitFields
    /\ InitNoCache
    /\ delay = 0
    /\ track = FALSE

BuildStep ==
    /\ result = <<>>
    /\ Commit([State EXCEPT !.result =
                  BuildCmd(call_args.fn, call_args.template, call_args.value)])

NextBuild == BuildStep

SpecBuild == InitBuild /\ [][NextBuild]_vars

\* The query prober: one host task switches the light on (which connects)
\* and calls query_state, against every cache file and every device that
\* answers one catalog entry or none; writes fail, the link drops.
InitQuery ==
    /\ InitSession
    /\ model = "ELK-BLEDDM"
    /\ delay = 0
    /\ track = FALSE
    /\ cache \in [Models -> CachedCmds]
    /\ cache_at_start = cache
    /\ cache_owner = [m \in Models |->
                          IF cache[m] = <<>> THEN NoAddress ELSE Address]
    /\ responds_to \in 0..Len(QUERY_COMMANDS)

NextQuery ==
    \/ Call("cmd", {"turn_off"}, MaxQueryCalls)
    \/ QueryCall("cmd")
    \/ Return("cmd")
    \/ Establish("cmd")
    \/ Refetch("cmd")
    \/ Teardown("cmd")
    \/ Subscribe("cmd")
    \/ Write("cmd")
    \/ Sleep("cmd")
    \/ QueryWriteEnd("cmd")
    \/ QuerySleep("cmd")
    \/ ProbeWrite("cmd")
    \/ ProbeSleep("cmd")
    \/ \E data \in NotifFrames : Respond(data)
    \/ \E c \in 1..MaxConns : LinkDrop(c)

SpecQuery == InitQuery /\ [][NextQuery]_vars

\* ================================================================== claims
\* Two devices that advertise the same name, on one host: the session of the
\* first runs the prober as in SpecQuery, on a host without a cache file; the
\* session of the second, which has found its own working command, saves it.
InitShared ==
    /\ InitSession
    /\ model = "ELK-BLEDDM"
    /\ delay = 0
    /\ track = FALSE
    /\ cache = [m \in Models |-> <<>>]
    /\ cache_at_start = cache
    /\ cache_owner = [m \in Models |-> NoAddress]
    /\ responds_to \in 0..Len(QUERY_COMMANDS)

\* _save_working_query_cmd in the session of the second device: its name and
\* its model are the first's, so is its device key.
OtherSave(cmd) ==
    /\ cache_owner[DeviceKey(State)] # OtherAddress
    /\ Commit(SaveEntry(State, OtherAddress, cmd))

NextShared ==
    \/ NextQuery
    \/ \E i \in 1..Len(QUERY_COMMANDS) : OtherSave(QUERY_COMMANDS[i])

SpecShared == InitShared /\ [][NextShared]_vars

\* The prober on every kind of device: a session of either name, with or
\* without a cached command for its key, against a device that answers one
\* catalog entry or none and sends notifications where it is subscribed.
ProbeCaches == {<<>>, QUERY_COMMANDS[2]}

InitProbe ==
    /\ InitSession
    /\ delay = 0
    /\ track = FALSE
    /\ cache \in [Models -> ProbeCaches]
    /\ cache_at_start = cache
    /\ cache_owner = [m \in Models |->
                          IF cache[m] = <<>> THEN NoAddress ELSE Address]
    /\ responds_to \in 0..Len(QUERY_COMMANDS)

NextProbe ==
    \/ NextQuery
    \/ \E data \in NotifFrames : Notify(data)

SpecProbe == InitProbe /\ [][NextProbe]_vars

DBus == "BleakDBusError"
NotFound == "BleakNotFoundError"

\* The exceptions the wrapper's third clause handles: the BLE retry
\* exceptions that are neither not-found nor backoff-worthy.
GeneralClass == BLEAK_EXCEPTIONS \ (RETRY_BACKOFF_EXCEPTIONS \cup {NotFound})

\* The wrapper activation of the public call task t is running or has ended.
InCall(t) == task[t].stack # <<>>
Outer(t) == task[t].stack[1]

\* C1: a wrapped operation whose function raises the backoff-worthy error
\* twice and then succeeds returns normally after exactly 2 backoff sleeps;
\* one that raises it 3 times ends with that error raised to the caller after
\* the 3rd attempt, with 2 sleeps in all (none after the final failure).
C1_BackoffThenResult ==
    \A t \in Callers : InCall(t) =>
        /\ (task[t].pc = "done" /\ task[t].exc = "none"
               /\ Outer(t).raised = <<DBus, DBus>>)
             => (Outer(t).sleeps = 2 /\ Outer(t).attempt = 2)
        /\ Outer(t).raised = <<DBus, DBus, DBus>>
             => (task[t].pc = "done" /\ task[t].exc = DBus
                   /\ Outer(t).sleeps = 2 /\ Outer(t).attempt = 2)

C1_Witness ==
    \E t \in Callers :
        /\ InCall(t) /\ task[t].pc = "done" /\ task[t].exc = "none"
        /\ Outer(t).raised = <<DBus, DBus>> /\ Outer(t).sleeps = 2

BackoffsIn(f, n) ==
    Cardinality({i \in 1..n : f.raised[i] \in RETRY_BACKOFF_EXCEPTIONS})

\* C3: when the function of a wrapped operation raises the not-found error,
\* on whichever attempt, the call ends there with that error: no further
\* attempt runs and no backoff sleep follows it.
C3_NotFoundImmediate ==
    \A t \in Callers :
        (InCall(t) /\ Outer(t).raised # <<>>
            /\ Outer(t).raised[Len(Outer(t).raised)] = NotFound)
        => /\ task[t].pc = "done"
           /\ task[t].exc = NotFound
           /\ Outer(t).attempt = Len(Outer(t).raised) - 1
           /\ Outer(t).sleeps = BackoffsIn(Outer(t), Len(Outer(t).raised) - 1)

C3_Witness ==
    \E t \in Callers :
        /\ InCall(t) /\ task[t].pc = "done" /\ task[t].exc = NotFound
        /\ Outer(t).raised = <<DBus, NotFound>>

\* C4: within one public call the write to the device is attempted at most
\* 3 times (1 attempt and 2 retries).
C4_AtMostThreeWrites ==
    \A t \in Callers : task[t].writes <= DEFAULT_ATTEMPTS

\* The step in which the connection step of task t's update() fails: the
\* connection attempt times out or raises, or no characteristic is resolved.
UpdateConnectFails(t) ==
    /\ task[t].op = "update"
    /\ \/ /\ task[t].pc = "establish"
          /\ \E out \in ConnectErrors :
                 Commit(EstablishDone(State, t, out, TRUE, TRUE))
       \/ /\ task[t].pc = "refetch"
          /\ Commit(RefetchDone(State, t, "BleakError", TRUE, TRUE))
       \/ /\ task[t].pc = "teardown"
          /\ Commit(TeardownDone(State, t))

\* C5: update() never raises; whenever its connection step fails (timeout,
\* not found, backoff-worthy or general BLE error, characteristic missing)
\* the call returns normally with the observed power off.
C5_UpdateFailureAssumesOff ==
    [][\A t \in Callers :
          UpdateConnectFails(t) =>
              (task'[t].pc = "done" /\ task'[t].exc = "none" /\ is_on' = "False")
      ]_vars

\* The step in which task t's update() returns.
UpdateReturns(t) ==
    task'[t].op = "update" /\ task[t].pc # "done" /\ task'[t].pc = "done"

\* The step in which the connection step of task t's update() raises.
UpdateConnectRaises(t) ==
    /\ task[t].op = "update"
    /\ \/ /\ task[t].pc = "establish"
          /\ \E out \in ConnectErrors \ {"TimeoutError"} :
                 Commit(EstablishDone(State, t, out, TRUE, TRUE))
       \/ /\ task[t].pc = "refetch"
          /\ Commit(RefetchDone(State, t, "BleakError", TRUE, TRUE))
       \/ /\ task[t].pc = "teardown"
          /\ Commit(TeardownDone(State, t))

Observed == <<is_on, rgb_color, color_temp_kelvin, brightness>>
Defaults == <<"False", <<0, 0, 0>>, 5000, 255>>

\* C6 as claimed: an update() that runs while the power is unknown leaves the
\* observed state at (off, (0,0,0), 5000 K, 255); an update() that runs while
\* the power is known leaves power, colour, temperature and brightness as
\* they were.
C6_UpdateInitialisesOnce ==
    [][\A t \in Callers :
          UpdateReturns(t) =>
              IF is_on = "None" THEN Observed' = Defaults
              ELSE Observed' = Observed
      ]_vars

\* C6 amended: an update() whose connection step does not raise (the link is
\* reused or established, or the attempt times out) sets (off, (0,0,0),
\* 5000 K, 255) when the power is unknown and changes none of the four when
\* it is known; an update() whose connection step raises sets the power off
\* and leaves colour, temperature and brightness as they were.
C6_UpdateInitialisesOrAssumesOff ==
    [][\A t \in Callers :
          UpdateReturns(t) =>
              IF UpdateConnectRaises(t)
              THEN /\ is_on' = "False"
                   /\ <<rgb_color, color_temp_kelvin, brightness>>' =
                          <<rgb_color, color_temp_kelvin, brightness>>
              ELSE IF is_on = "None" THEN Observed' = Defaults
              ELSE Observed' = Observed
      ]_vars

C6_Witness ==
    /\ task["poll"].op = "update" /\ task["poll"].pc = "done"
    /\ ncalls = MaxCalls /\ task["cmd"].pc = "idle" /\ updated
    /\ is_on = "True" /\ rgb_color = <<255, 0, 0>> /\ color_temp_kelvin = 5000

\* C7: once the observed power is on or off, no step of the session (a
\* mutator, update(), a notification, a link drop, a timed disconnect, stop())
\* makes it unknown again.
C7_PowerStaysKnown == [][is_on # "None" => is_on' # "None"]_vars

C7_Witness ==
    /\ is_on = "True"
    /\ task["poll"].op = "stop" /\ task["poll"].pc = "done"
    /\ nclients > 0 /\ linkUp = {}

\* C8 as claimed: while no connection attempt of the session has succeeded,
\* the observed power is unknown.
C8_UnknownUntilConnected == nclients = 0 => is_on = "None"

\* C8 amended: while no connection attempt of the session has succeeded and
\* no update() has got past its connection step, the observed power is
\* unknown.
C8_UnknownUntilConnectedOrUpdated ==
    (nclients = 0 /\ ~updated) => is_on = "None"

C8_Witness ==
    /\ nclients = 0 /\ ~updated /\ is_on = "None"
    /\ task["cmd"].pc = "done" /\ task["cmd"].exc = "RuntimeError"

\* The pcs of the locked section of _ensure_connected and of
\* _execute_disconnect.
ConnectPcs == {"establish", "refetch", "teardown", "subscribe"}
DisconnectPcs == {"d_stop_notify", "d_disconnect"}

\* C9: at most one establish_connection is in progress at any time, and a
\* caller of _ensure_connected that waited for the lock and finds a connected
\* client when it gets it returns without a connection attempt of its own.
C9_OneConnectAtATime ==
    /\ [](Cardinality({t \in Procs : task[t].pc = "establish"}) <= 1)
    /\ [][\A t \in Callers :
             (task[t].pc = "waitlock" /\ task'[t].pc # "waitlock" /\ Connected(State))
             => (task'[t].pc \notin ConnectPcs /\ nclients' = nclients
                   /\ client' = client)
         ]_vars

C9_Witness ==
    /\ task["poll"].pc = "waitlock" /\ waiters = <<"poll">>
    /\ task["cmd"].pc = "subscribe" /\ Connected(State)

\* C10: a connect sequence and a disconnect never interleave: no task is
\* inside _execute_disconnect's locked section while another is inside
\* _ensure_connected's, and whoever is inside one holds the lock.
C10_ConnectDisconnectExclusive ==
    /\ \A t1, t2 \in Procs :
           ~(task[t1].pc \in ConnectPcs /\ task[t2].pc \in DisconnectPcs)
    /\ \A t \in Procs : task[t].pc \in ConnectPcs \cup DisconnectPcs => lock = t

C10_Witness ==
    \E t \in Procs, d \in Procs :
        /\ task[t].pc = "establish"
        /\ task[d].pc = "d_waitlock" /\ waiters = <<d>>

\* The session is left alone: every public call the behaviour makes has been
\* made and has returned.
Quiet == ncalls = MaxCalls /\ \A t \in Callers : task[t].pc = "idle"

\* C11: however often the idle timer is armed, at most one handle is live,
\* and it is the one the last arm scheduled and the session holds: every
\* earlier one was cancelled and never fires.
C11_OneLiveTimer ==
    /\ live_timers <= 1
    /\ live_timers = 1 <=> disconnect_timer = "pending"

C11_Witness ==
    /\ delay # 0 /\ ncalls = 2 /\ nclients = 1 /\ task["poll"].pc = "idle"
    /\ task["cmd"].pc = "write" /\ task["cmd"].conn = 1
    /\ Outer("cmd").attempt = 0 /\ disconnect_calls[1] = 0
    /\ rgb_color = <<255, 0, 0>>
    /\ \A d \in AllTimed : task[d].pc = "idle"
    /\ disconnect_timer = "pending" /\ live_timers = 1

\* C12: a timer firing that races with or follows another disconnect of the
\* same connection does not raise and does not disconnect again: disconnect()
\* is called at most once on each client, and a timed disconnect ends without
\* an exception.
C12_DisconnectOnce ==
    /\ \A c \in 1..MaxConns : disconnect_calls[c] <= 1
    /\ \A d \in AllTimed : task[d].exc = "none"

C12_Witness ==
    /\ task["poll"].op = "stop" /\ task["poll"].pc = "done"
    /\ task["timed1"].pc = "d_waitlock" /\ disconnect_calls[1] = 1

\* Client c's link is closed, or its disconnect() has been called (and has
\* failed).
Disconnected(c) == c \notin linkUp \/ disconnect_calls[c] > 0

\* C13: with an idle delay, from every state in which the session is
\* connected and left alone, the timer fires and the session comes to hold no
\* client, with every link disconnected.
C13_IdleDisconnects ==
    (delay # 0 /\ Connected(State) /\ Quiet)
        ~> (client = 0 /\ \A c \in 1..MaxConns : Disconnected(c))

\* C14: the step that ends stop() leaves the session without client and
\* without characteristic UUIDs, and the link of the client stop() took from
\* the session disconnected.
C14_StopDisconnects ==
    [][\A t \in Callers :
          (task[t].op = "stop" /\ task[t].pc # "done" /\ task'[t].pc = "done")
          => /\ client' = 0 /\ ~read_uuid' /\ ~write_uuid'
             /\ \A c \in 1..MaxConns :
                    (task[t].pc \in DisconnectPcs /\ task[t].conn = c)
                    => Disconnected(c)'
      ]_vars

\* The step that ends task t's teardown of client c: no characteristic pair
\* was resolved, clear_cache() and disconnect() have been awaited.
TeardownStep(t, c) ==
    task[t].pc = "teardown" /\ task[t].conn = c /\ task'[t] # task[t]

C16_OnlyTwoErrorsReachCaller ==
    \A t \in Callers :
        (task[t].pc = "done" /\ task[t].op \in Mutators)
        => task[t].exc \in {"none", NotFound, "CharacteristicMissingError"}

\* C17: on an ELK-BLEDDM session the write of the variant check carries the
\* primary turn-on template; when the 300 ms wait after it ends with no
\* notification received, the alternate templates are swapped in and the
\* alternate turn-on template is what turn_on writes next; from then on every
\* turn_off writes the alternate turn-off template.
C17_VariantTemplates ==
    /\ [](\A t \in Callers :
            (model = "ELK-BLEDDM" /\ task[t].pc = "write") =>
                LET f == Top(State, t)
                IN  /\ (f.op = "turn_on" /\ f.phase = "primary")
                         => (f.data = <<126, 4, 4, 240, 0, 1, 255, 0, 239>>
                               /\ ~alt_cmds)
                    /\ (f.op = "turn_on" /\ alt_cmds)
                         => f.data = <<126, 0, 4, 240, 0, 1, 255, 0, 239>>
                    /\ (f.op = "turn_off" /\ alt_cmds)
                         => f.data = <<126, 0, 4, 0, 0, 0, 255, 0, 239>>)
    /\ [][\A t \in Callers :
             (task[t].pc = "variant_wait" /\ task'[t] # task[t]
                 /\ ~notification_received)
             => /\ alt_cmds'
                /\ Top(State, t)'.data = <<126, 0, 4, 240, 0, 1, 255, 0, 239>>
                /\ Connected(State) => task'[t].pc = "write"
         ]_vars

C17_Witness ==
    /\ model = "ELK-BLEDDM" /\ alt_cmds /\ ncalls >= 2
    /\ task["cmd"].op = "turn_off" /\ task["cmd"].pc = "write"
    /\ Top(State, "cmd").data = <<126, 0, 4, 0, 0, 0, 255, 0, 239>>

\* C18: the ELK-BLEDDM variant check is begun at most once in a session,
\* whatever the turn_on calls, retries, link drops and reconnections, and the
\* alternate templates, once swapped in, stay.
C18_VariantCheckOnce ==
    /\ [](variant_checks <= 1)
    /\ [][alt_cmds => alt_cmds']_vars
    /\ [][bleddm_variant_checked => bleddm_variant_checked']_vars

C18_Witness ==
    /\ variant_checks = 1 /\ alt_cmds /\ ncalls = MaxVariantCalls
    /\ nclients = 2 /\ task["cmd"].op = "turn_on" /\ task["cmd"].pc = "write"
    /\ Outer("cmd").attempt = 1


\* ------------------------------------------------------------------- C19
\* C19: when the cache file holds an entry for the session's device key, the
\* session never enters the detection loop over QUERY_COMMANDS, and every
\* frame query_state writes is the cached command.
C19_CacheHitNeverProbes ==
    cache_at_start[model] # <<>> =>
        /\ ~probed
        /\ \A i \in 1..Len(query_writes) : query_writes[i] = cache_at_start[model]

\* The cached command, not the first of the catalog, written by the call that
\* loaded it and by a later call.
C19_Witness ==
    /\ cache_at_start[model] # <<>>
    /\ cache_at_start[model] # QUERY_COMMANDS[1]
    /\ working_query_cmd = cache_at_start[model]
    /\ Len(query_writes) >= 2
    /\ task["cmd"].pc = "q_sleep"

\* ------------------------------------------------------------------- C20
ProbePrefix(k) == SubSeq(QUERY_COMMANDS, 1, k)

IsPrefix(s, r) == Len(s) <= Len(r) /\ \A i \in 1..Len(s) : s[i] = r[i]

\* The session has no cache entry, is connected with notifications enabled,
\* and the device answers catalog entry responds_to only.
ProbeCase ==
    /\ cache_at_start[model] = <<>>
    /\ responds_to # 0
    /\ Connected(State)
    /\ client \in subscribed

\* C20: with no cache entry and a connected device that answers candidate k
\* only, the detection loop writes the candidates up to k in catalog order
\* and none after k, and ends with candidate k as the working command and as
\* the entry of the session's device key in the cache file.
C20_ProbeFindsK ==
    /\ [](ProbeCase /\ probed /\ ~query_detection_done
            => IsPrefix(query_writes, ProbePrefix(responds_to)))
    /\ [][ProbeCase /\ ~query_detection_done /\ query_detection_done'
            => /\ query_writes' = ProbePrefix(responds_to)
               /\ working_query_cmd' = QUERY_COMMANDS[responds_to]
               /\ cache' = [cache_at_start EXCEPT
                               ![model] = QUERY_COMMANDS[responds_to]]]_vars

\* ------------------------------------------------------------------- C21
\* C21: once _query_detection_done is set, detection stays done, the working
\* command and the cache file never change again, and the only frame
\* query_state writes is the working command, once per call and only when
\* there is one.
C21_DoneIsFinal ==
    [][query_detection_done =>
          /\ query_detection_done'
          /\ working_query_cmd' = working_query_cmd
          /\ cache' = cache
          /\ query_writes' # query_writes =>
                /\ task["cmd"].pc = "idle"
                /\ working_query_cmd # <<>>
                /\ query_writes' = Append(query_writes, working_query_cmd)]_vars

\* A call after the detection loop found the device's command has written it
\* again.
C21_Witness ==
    /\ probed
    /\ query_detection_done
    /\ responds_to # 0
    /\ working_query_cmd = QUERY_COMMANDS[responds_to]
    /\ task["cmd"].pc = "q_sleep"
    /\ query_writes = Append(ProbePrefix(responds_to), working_query_cmd)

\* ------------------------------------------------------------------- C22
\* C22: an update() that returns with the session connected, on a session
\* whose query detection has not been done, leaves it done.
C22_UpdateRunsProber ==
    [][\A t \in Callers :
          UpdateReturns(t) /\ Connected(State)' /\ ~query_detection_done
              => query_detection_done']_vars

\* ------------------------------------------------------------------- C23
\* The keys, as a set.
RegisteredModels == {ModelKeys[i] : i \in 1..Len(ModelKeys)}

\* C23 as stated: the resolved model is every key the device name starts
\* with (case-insensitively), and a registered model for a name without a
\* matching key and for a missing name.
C23_PrefixKeyResolves ==
    model # "None" =>
        /\ model \in RegisteredModels
        /\ device_name # NoName =>
              \A i \in MatchingKeys(device_name) : model = ModelKeys[i]

\* C23, amended: the resolved model is the key the device name starts with,
\* the longest one where it starts with several (ELK-BLEDDM before ELK-BLE,
\* MELK-OG10 before MELK, ELK-BULB2 before ELK-BULB); without a matching key,
\* and for a missing name, it is a registered model.
C23_LongestKeyResolves ==
    model # "None" =>
        /\ model \in RegisteredModels
        /\ device_name # NoName /\ MatchingKeys(device_name) # {} =>
              \E i \in MatchingKeys(device_name) :
                  /\ model = ModelKeys[i]
                  /\ \A j \in MatchingKeys(device_name) :
                         Len(KeyChars[j]) <= Len(KeyChars[i])

\* A lower-case name that starts with two keys has been resolved.
C23_Witness ==
    /\ device_name = Lower(KeyChars[4]) \o <<"-", "0", "1">>
    /\ Cardinality(MatchingKeys(device_name)) = 2
    /\ model = "MELK-OG10"

\* ------------------------------------------------------------------- C24
\* Byte R is the product n / 100 rounded to an integer and clipped to 0..255.
RoundedClipped(R, n) ==
    LET c == IF n < 0 THEN 0 ELSE IF n > 25500 THEN 25500 ELSE n
    IN  R \in 0..255 /\ 100 * R - c <= 50 /\ c - 100 * R <= 50

\* The frame set_color(rgb) writes under gains g (in hundredths).
IsColorFrame(data, rgb, g) ==
    /\ Len(data) = 9
    /\ <<data[1], data[2], data[3], data[4], data[8], data[9]>>
           = <<126, 0, 5, 3, 0, 239>>
    /\ \A i \in 1..3 : RoundedClipped(data[4 + i], rgb[i] * g[i])
    /\ (g = <<100, 100, 100>> /\ \A i \in 1..3 : rgb[i] \in 0..255)
           => <<data[5], data[6], data[7]>> = rgb
    /\ (g[1] = 50 /\ rgb[1] = 200) => data[5] = 100

\* C24: every frame a set_color call hands to write_gatt_char is
\* 7e 00 05 03 R G B 00 ef with each channel the input times its gain,
\* rounded and clipped to 0..255.
C24_ColorFrame ==
    [][LET s == task["cmd"].stack
           s1 == task'["cmd"].stack
       IN  s1 # <<>> /\ s1[1].op = "set_color" =>
             IF s = <<>> \/ s1[1].attempt # s[1].attempt
             THEN \* an attempt begins: the frame is built from the gains
                  IsColorFrame(s1[1].data, s1[1].arg, rgb_gains)
             ELSE \* and is the one the attempt writes
                  s1[1].data = s[1].data]_vars

\* set_color((200, 75, 25)) in flight under gains (0.5, 1.5, 2.0).
C24_Witness ==
    /\ task["cmd"].pc = "write" /\ task["cmd"].op = "set_color"
    /\ rgb_gains = <<50, 150, 200>>
    /\ Top(State, "cmd").arg = <<200, 75, 25>>
    /\ Top(State, "cmd").data = <<126, 0, 5, 3, 100, 112, 50, 0, 239>>

\* ------------------------------------------------------------------- C25
\* Frame and template agree everywhere but at index i, where the frame holds
\* the payload.
SubstitutedAt(frame, cmd, i, payload) ==
    /\ Len(frame) = Len(cmd)
    /\ frame[i] = payload
    /\ \A j \in 1..Len(cmd) : j # i => frame[j] = cmd[j]

\* The builder has been called on a template with exactly one 0xbb.
OneSentinelCase ==
    /\ result # <<>>
    /\ call_args.template # NoTemplate
    /\ Cardinality(BBIndices(call_args.template)) = 1

\* The builder has been called on a template without 0xbb.
NoSentinelCase ==
    /\ result # <<>>
    /\ call_args.template # NoTemplate
    /\ BBIndices(call_args.template) = {}

WriteSucceeds(t) ==
    /\ task[t].pc \in {"write", "variant_wait"}
    /\ task[t].op \in Mutators
    /\ task'[t].pc = "done" /\ task'[t].exc = "none"

\* C26: a setter changes the observed properties only in the step in which
\* its write succeeds; a call whose every write fails leaves power, colour,
\* brightness and colour temperature as they were before the call.
C26_ObservedOnlyAfterWrite ==
    [][\A t \in Callers :
          (task'[t] # task[t] /\ task'[t].op \in Mutators
             /\ Observed' # Observed) => WriteSucceeds(t)
      ]_vars

\* ------------------------------------------------------------------- C27
\* The frame passes the framing check.
ValidFrame(data) == Len(data) >= 9 /\ data[1] = 126 /\ data[9] = 239

\* The step is a call of the notification handler on frame data.
Handles(data) ==
    /\ call_args'.fn = "_notification_handler"
    /\ call_args'.value = data

\* C27: a notification that fails the framing check (shorter than 9 bytes,
\* first byte not 0x7e, or ninth byte not 0xef) changes no observed property;
\* it sets the response-received flag, as every notification does.
C27_InvalidFrameOnlySetsFlag ==
    [][\A data \in HandlerFrames :
          Handles(data) =>
              /\ notification_received'
              /\ ~ValidFrame(data) => Observed' = Observed
      ]_vars

\* A frame with a wrong ninth byte has reached a session that knows power,
\* colour and brightness from an earlier status frame.
C27_Witness ==
    /\ call_args.fn = "_notification_handler"
    /\ call_args.value = <<126, 0, 1, 36, 255, 255, 0, 200, 0>>
    /\ notification_received
    /\ is_on = "True" /\ rgb_color = <<255, 0, 0>> /\ brightness = 127

\* ------------------------------------------------------------------- C30
OnBytes == {35, 240, 1}
OffBytes == {36, 0}

\* C30: a valid frame of type 0x01 sets power on for byte 3 in
\* {0x23, 0xf0, 0x01}, off for byte 3 in {0x24, 0x00} and leaves it otherwise;
\* sets the colour from bytes 4..6 unless all three are 0xff; sets brightness
\* from byte 7, a percentage rescaled to 0..255, unless it is 0xff. A valid
\* frame of another type changes no observed property.
C30_StatusDecode ==
    [][\A data \in HandlerFrames :
          (Handles(data) /\ ValidFrame(data)) =>
              IF data[3] = 1
              THEN /\ is_on' = IF data[4] \in OnBytes THEN "True"
                               ELSE IF data[4] \in OffBytes THEN "False"
                               ELSE is_on
                   /\ rgb_color' =
                        IF <<data[5], data[6], data[7]>> = <<255, 255, 255>>
                        THEN rgb_color
                        ELSE <<data[5], data[6], data[7]>>
                   /\ brightness' = IF data[8] = 255 THEN brightness
                                    ELSE (data[8] * 255) \div 100
                   /\ color_temp_kelvin' = color_temp_kelvin
              ELSE Observed' = Observed
      ]_vars

\* A status frame with an unknown power byte, a colour with two 0xff bytes
\* and 50 % brightness has reached a session that was on.
C30_Witness ==
    /\ call_args.fn = "_notification_handler"
    /\ call_args.value = <<126, 0, 1, 99, 255, 255, 0, 50, 239>>
    /\ is_on = "True" /\ rgb_color = <<255, 255, 0>> /\ brightness = 127

\* ------------------------------------------------------------------- C28
\* The six command templates of the session.
SessionTemplates ==
    [turn_on_cmd |-> TurnOnCmd(State),
     turn_off_cmd |-> TurnOffCmd(State),
     white_cmd |-> MODEL_DB[config].white_cmd,
     effect_speed_cmd |-> MODEL_DB[config].effect_speed_cmd,
     effect_cmd |-> MODEL_DB[config].effect_cmd,
     color_temp_cmd |-> MODEL_DB[config].color_temp_cmd]

\* The variant swap: the alternate turn-on and turn-off templates of
\* ELK-BLEDDM replace the primary ones.
VariantSwap ==
    /\ model = "ELK-BLEDDM"
    /\ SessionTemplates' =
          [SessionTemplates EXCEPT
              !.turn_on_cmd = MODEL_DB["ELK-BLEDDM"].alt_turn_on_cmd,
              !.turn_off_cmd = MODEL_DB["ELK-BLEDDM"].alt_turn_off_cmd]

\* C28: the templates are those model resolution gave the session at
\* construction; no operation, connect or reconnect changes them, except the
\* variant swap on an ELK-BLEDDM session.
C28_TemplatesFixed ==
    [][SessionTemplates' # SessionTemplates => VariantSwap]_vars

\* ------------------------------------------------------------------- C29
\* Task t is in a disconnect of client c that the session began itself:
\* stop() or the idle timer (_execute_disconnect), or the teardown after
\* characteristic resolution failed.
Disconnecting(t, c) ==
    /\ task[t].pc \in {"d_stop_notify", "d_disconnect", "teardown"}
    /\ task[t].conn = c

\* The link of client c ends in this step and the callback runs.
LinkEnds(c) == c \in linkUp /\ c \notin linkUp'

\* C29: the callback sees the flag set in every disconnect the session makes
\* itself (stop(), idle timer, teardown after failed resolution) and clear,
\* reporting an unexpected disconnect, when the device drops the link, also
\* during a reconnect.
C29_DisconnectClassified ==
    [][\A c \in 1..MaxConns :
          LinkEnds(c) =>
              IF \E t \in Procs : Disconnecting(t, c)
              THEN DisconnectedCallback(State) = "expected"
              ELSE DisconnectedCallback(State) = "unexpected"
      ]_vars


\* ------------------------------------------------------------------- C31
\* C31: the observed brightness is an integer between 0 and 255 in every
\* reachable state, whatever the notification frames received.
C31_BrightnessInRange == brightness \in 0..255

\* ------------------------------------------------------------------- C32
\* C32: the colour temperature the session records lies within
\* [min_k, max_k] whatever value set_color_temp_kelvin was called with, and
\* the position byte of the native frame lies within 0..100.
C32_KelvinClamped ==
    /\ color_temp_kelvin # NoKelvin
          => color_temp_kelvin \in MIN_KELVIN..MAX_KELVIN
    /\ \A t \in Callers :
          (task[t].pc = "write" /\ Top(State, t).op = "set_color_temp_kelvin")
              => Top(State, t).data[5] \in 0..100

\* ------------------------------------------------------------------- C33
\* The colour on the line from the warm anchor (at min_k) to the cool anchor
\* (at max_k) for the value brought into the range, scaled by brightness/255;
\* each channel is cut to an integer after the interpolation and again after
\* the scaling (\div rounds down, as int() does for the values met here,
\* none of which is negative).
Interpolated(arg) ==
    LET v == IF arg[1] < MIN_KELVIN THEN MIN_KELVIN
             ELSE IF arg[1] > MAX_KELVIN THEN MAX_KELVIN ELSE arg[1]
        ch(i) == (WARM_RGB[i] * (MAX_KELVIN - MIN_KELVIN)
                    + (COOL_RGB[i] - WARM_RGB[i]) * (v - MIN_KELVIN))
                 \div (MAX_KELVIN - MIN_KELVIN)
    IN  [i \in 1..3 |-> (ch(i) * arg[2]) \div 255]

\* Task t's set_color_temp_kelvin is in its emulation: it has called
\* set_color with the interpolated colour.
Emulating(t) ==
    /\ Len(task[t].stack) = 2
    /\ task[t].stack[1].phase = "emulate"
    /\ task[t].stack[2].op = "set_color"
    /\ task[t].stack[2].arg = Interpolated(task[t].stack[1].arg)

\* C33: a step of the native path of set_color_temp_kelvin either stays in the
\* native path, or ends the call without error, or begins the emulation:
\* set_color is called with the colour interpolated between (255,138,18) at
\* min_k and (180,220,255) at max_k and scaled by brightness/255, and the
\* failure of the native path is neither raised to the caller nor counted by
\* the retry policy. A native write that cannot succeed, and the teardown
\* after failed resolution, always begin the emulation.
C33_DegradesToEmulation ==
    /\ Interpolated(<<MIN_KELVIN, 255>>) = <<255, 138, 18>>
    /\ Interpolated(<<MAX_KELVIN, 255>>) = <<180, 220, 255>>
    /\ [](\A t \in Callers :
            (InCall(t) /\ task[t].op = "set_color_temp_kelvin"
                /\ Len(task[t].stack) = 2) => Emulating(t))
    /\ [][\A t \in Callers :
            (InCall(t) /\ task[t].pc # "done"
                /\ Top(State, t).op = "set_color_temp_kelvin"
                /\ Top(State, t).phase = "native" /\ task'[t] # task[t])
            => /\ \/ /\ task'[t].stack = task[t].stack
                     /\ task'[t].pc # "done"
                  \/ /\ task'[t].stack = task[t].stack
                     /\ task'[t].pc = "done" /\ task'[t].exc = "none"
                     /\ task[t].pc = "write"
                  \/ /\ Emulating(t)'
                     /\ task'[t].pc # "done"
                     /\ task'[t].stack[1] =
                          [task[t].stack[1] EXCEPT !.phase = "emulate"]
               /\ (task[t].pc = "teardown"
                     \/ (task[t].pc = "write" /\ task[t].conn \notin linkUp))
                  => Emulating(t)'
      ]_vars

\* The native write of set_color_temp_kelvin(1800, 255) has failed and the
\* warm anchor is being written by set_color.
C33_Witness ==
    /\ task["cmd"].op = "set_color_temp_kelvin" /\ task["cmd"].pc = "write"
    /\ task["cmd"].writes = 2
    /\ Len(task["cmd"].stack) = 2
    /\ task["cmd"].stack[1].arg = <<1800, 255>>
    /\ task["cmd"].stack[1].raised = <<>>
    /\ task["cmd"].stack[2].arg = <<255, 138, 18>>
    /\ task["cmd"].stack[2].data = <<126, 0, 5, 3, 255, 138, 18, 0, 239>>

\* ------------------------------------------------------------------- C34
\* The byte m with its high bit set.
WithHighBit(m) == IF m >= 128 THEN m ELSE m + 128

\* C34: for every day mask in 0..255 the day byte of the scheduler frame is
\* the mask with bit 0x80 set when enabled, the mask itself when not, and is
\* a byte.
C34_SchedulerDayByte ==
    result # <<>> =>
        /\ result[8] = IF call_args.value[4] THEN WithHighBit(call_args.value[1])
                       ELSE call_args.value[1]
        /\ result[8] \in 0..255

\* ------------------------------------------------------------------- C35
\* C35: while the write of a command is in flight and the idle timer armed
\* for it has not fired, the link the write was issued on is up: a disconnect
\* scheduled by a timer that expired before the re-arm does not end it.
C35_RearmProtectsWrite ==
    \A t \in Callers :
        (task[t].pc = "write" /\ disconnect_timer = "pending")
            => task[t].conn \in linkUp

\* ------------------------------------------------------------------- C36
\* C36: the connect lock, once taken, is always released again, and a task
\* that waits for it gets on: no call of _ensure_connected blocks for ever,
\* also when the login handshake writes inside the locked section and the
\* link drops during the handshake.
C36_LockReleased ==
    /\ (lock # Free) ~> (lock = Free)
    /\ \A t \in Callers :
          (task[t].pc \in {"waitlock", "login_waitlock"})
              ~> (task[t].pc \notin {"waitlock", "login_waitlock"})

\* ------------------------------------------------------------------- C37
\* C37: a turn_on() on an ELK-BLEDDM unit that has sent no notification
\* since the variant check began returns with the alternate templates in
\* place, also when the primary write failed and the retry policy ran
\* turn_on() again.
C37_VariantCheckSurvivesRetry ==
    \A t \in Callers :
        (model = "ELK-BLEDDM" /\ task[t].op = "turn_on"
            /\ task[t].pc = "done" /\ task[t].exc = "none"
            /\ ~notification_received)
        => alt_cmds

\* C38: the entries of the cache file are per device. The session takes a
\* working command out of the file only from an entry its own device saved,
\* and no save replaces the entry another device saved.
C38_EntriesPerDevice ==
    [][/\ (working_query_cmd = <<>> /\ working_query_cmd' # <<>>)
           => cache_owner'[DeviceKey(State)] = Address
       /\ \A k \in Models :
              cache_owner[k] # NoAddress => cache_owner'[k] = cache_owner[k]]_vars

\* C39: in the session of a device whose name starts with "melk" or "ledble"
\* no client is ever subscribed and the response flag is never set; there a
\* run of the prober ends only after the last entry of the catalog, with no
\* working command and with the cache file as it was.
MelkOrLedble(name) ==
    StartsWith(Lower(name), <<"m", "e", "l", "k">>)
        \/ StartsWith(Lower(name), <<"l", "e", "d", "b", "l", "e">>)

Probing(t) == task[t].pc \in {"q_probe_write", "q_probe_sleep"}

C39_NoNotifyProbeExhausts ==
    /\ [](MelkOrLedble(device_name) =>
             subscribed = {} /\ ~notification_received)
    /\ [][\A t \in Callers :
             (MelkOrLedble(device_name) /\ Probing(t) /\ ~Probing(t)')
             => /\ task[t].cand = Len(QUERY_COMMANDS)
                /\ query_detection_done'
                /\ working_query_cmd' = <<>>
                /\ cache' = cache]_vars

C39_Witness ==
    /\ MelkOrLedble(device_name)
    /\ probed
    /\ query_detection_done
    /\ task["cmd"].pc = "done"
    /\ Len(query_writes) = Len(QUERY_COMMANDS)
    /\ working_query_cmd = <<>>

\* C40: the order of the registry makes the longest matching prefix win. A
\* key that starts with another key comes before it in MODEL_DB, and the
\* model resolved for a name is longer than every other key the name starts
\* with.
KeyBefore(i, j) ==
    (i # j /\ StartsWith(Lower(KeyChars[i]), Lower(KeyChars[j]))) => i < j

C40_LongestPrefixWins ==
    /\ \A i, j \in 1..Len(KeyChars) : KeyBefore(i, j)
    /\ (model # "None" /\ device_name # NoName) =>
           \A j \in MatchingKeys(device_name) :
               \E i \in MatchingKeys(device_name) :
                   /\ model = ModelKeys[i]
                   /\ j # i => Len(KeyChars[j]) < Len(KeyChars[i])

\* A mixed-case name that starts with ELK-BULB2 and with ELK-BULB has been
\* resolved to the longer key.
C40_Witness ==
    /\ model = "ELK-BULB2"
    /\ MatchingKeys(device_name) = {6, 7}
    /\ device_name # Lower(device_name)
    /\ Len(device_name) > Len(KeyChars[6])
====
